---- MODULE Spec2Model ----
(***************************************************************************)
(* A model of the triSYCL device passes of this LLVM tree: the kernel      *)
(* signature matcher and the kernel name registry (lib/SYCL/SYCLKernel.cpp),*)
(* the kernel filter that partitions linkage (SYCLKernelFilter.cpp), the   *)
(* two argument serialisation passes (SYCLSerializeArguments*.cpp) and the *)
(* "has a kernel ancestor" list computed over the call graph.              *)
(*                                                                         *)
(* Names are TLA+ strings; prefix tests and decimal formatting are         *)
(* computed character by character, as StringRef::startswith and the       *)
(* stream insertion of a std::size_t do.                                   *)
(***************************************************************************)
EXTENDS Integers, Sequences, FiniteSets, TLC

VARIABLES
  SimplerKernelNames,  \* std::map<std::string, std::size_t>, name -> ID
  NextKernelID,        \* the kernel ID to use next, counting from 0
  lastCall,            \* history: the last registry call made and its result
  firstReg,            \* history: <<name, ID>> of each first registration
  verdicts,            \* history: <<name, result>> of the isKernel calls made
  M,                   \* the llvm::Module under transformation
  passLog,             \* history: the passes run so far, in order
  hasKernelAncestorFunctionList  \* std::vector<Function *>, as function indices

vars == <<SimplerKernelNames, NextKernelID, lastCall, firstReg, verdicts, M,
          passLog,
          hasKernelAncestorFunctionList>>

----------------------------------------------------------------------------
(* Bounds of the model *)

\* largest ID handed to constructSYCLKernelShortName directly
MaxId == 12

----------------------------------------------------------------------------
(* Strings *)

\* StringRef::startswith: long enough and the first Len(p) characters equal
startswith(s, p) ==
  /\ Len(s) >= Len(p)
  /\ \A i \in 1..Len(p) : SubSeq(s, i, i) = SubSeq(p, i, i)

Digit == <<"0", "1", "2", "3", "4", "5", "6", "7", "8", "9">>

\* operator<<(std::ostream &, std::size_t): the decimal digits of n
RECURSIVE Decimal(_)
Decimal(n) ==
  IF n < 10 THEN Digit[n + 1]
  ELSE Decimal(n \div 10) \o Digit[(n % 10) + 1]

----------------------------------------------------------------------------
(* Signature matcher *)

SYCLKernelPrefix == "void cl::sycl::detail::instantiate_kernel<"

SYCLKernelShortPrefix == "TRISYCL_kernel_"

\* Linkage names used in the model
NameKernelA == "_ZN2cl4sycl6detail18instantiate_kernelI2KAEEvT_"
NameKernelB == "_ZN2cl4sycl6detail18instantiate_kernelI2KBEEvT_"
NameHelper == "_Z6helperv"
NameHelper2 == "_Z7helper2v"
NameMain == "main"
NameInfix == "_Z4callIXadL_ZN2cl4sycl6detail18instantiate_kernelI2KAEEvT_EEEvv"
NameCase == "_ZN2cl4sycl6detail18Instantiate_kernelI2KAEEvT_"
NameNoReturn == "_ZN2cl4sycl6detail18instantiate_kernelEv"
NameShort0 == "TRISYCL_kernel_0"
NameShortNoSep == "TRISYCL_kernel"
NameShortLower == "trisycl_kernel_0"
NoName == ""

\* The names the matcher is tried on
MatcherNames ==
  { NameKernelA, NameKernelB, NameHelper, NameMain, NameInfix, NameCase,
    NameNoReturn, NameShort0, NameShortNoSep, NameShortLower, NoName }

\* itaniumDemangle: the demangled text, or a null pointer (ok = FALSE) when
\* the name is not a valid Itanium mangled name
itaniumDemangle(name) ==
  CASE name = NameKernelA ->
         [ok |-> TRUE, str |-> "void cl::sycl::detail::instantiate_kernel<KA>(KA)"]
    [] name = NameKernelB ->
         [ok |-> TRUE, str |-> "void cl::sycl::detail::instantiate_kernel<KB>(KB)"]
    [] name = NameHelper -> [ok |-> TRUE, str |-> "helper()"]
    [] name = NameHelper2 -> [ok |-> TRUE, str |-> "helper2()"]
    [] name = NameInfix ->
         [ok |-> TRUE,
          str |-> "void call<&(void cl::sycl::detail::instantiate_kernel<KA>(KA))>()"]
    [] name = NameCase ->
         [ok |-> TRUE, str |-> "void cl::sycl::detail::Instantiate_kernel<KA>(KA)"]
    [] name = NameNoReturn ->
         [ok |-> TRUE, str |-> "cl::sycl::detail::instantiate_kernel()"]
    [] OTHER -> [ok |-> FALSE, str |-> ""]

\* A mutant of isKernel: the short prefix is not consulted
isKernelDemangledOnly(name) ==
  IF name = NoName THEN FALSE
  ELSE LET D == itaniumDemangle(name) IN
       IF D.ok THEN startswith(D.str, SYCLKernelPrefix) ELSE FALSE

\* A mutant of isKernel: the marker is accepted anywhere in the demangled
\* name and the short prefix is not consulted
isKernelAnywhere(name) ==
  IF name = NoName THEN FALSE
  ELSE LET D == itaniumDemangle(name) IN
       /\ D.ok
       /\ \E k \in 0..Len(D.str) :
            startswith(SubSeq(D.str, k + 1, Len(D.str)), SYCLKernelPrefix)

\* sycl::isKernel, on the linkage name of the function
isKernel(name) ==
  IF name = NoName THEN FALSE
  ELSE IF startswith(name, SYCLKernelShortPrefix) THEN TRUE
  ELSE LET D == itaniumDemangle(name) IN
       IF D.ok THEN startswith(D.str, SYCLKernelPrefix) ELSE FALSE

----------------------------------------------------------------------------
(* Kernel registry *)

\* A mutant of registerSYCLKernel: the name is bound to the counter even when
\* it is already known (operator[] in place of emplace)
registerSYCLKernelRebind(names, next, LongKernelName) ==
  LET inserted == LongKernelName \notin DOMAIN names
      names2 == (LongKernelName :> next) @@ names
  IN [names |-> names2,
      next |-> IF inserted THEN next + 1 ELSE next,
      ret |-> names2[LongKernelName]]

\* A mutant of registerSYCLKernel: the counter is bumped on every call
registerSYCLKernelAlwaysBump(names, next, LongKernelName) ==
  LET inserted == LongKernelName \notin DOMAIN names
      names2 == IF inserted THEN names @@ (LongKernelName :> next) ELSE names
  IN [names |-> names2, next |-> next + 1, ret |-> names2[LongKernelName]]

\* registerSYCLKernel: emplace (name, NextKernelID); bump the counter if the
\* pair was inserted; return the ID now bound to the name
registerSYCLKernel(names, next, LongKernelName) ==
  LET inserted == LongKernelName \notin DOMAIN names
      names2 == IF inserted THEN names @@ (LongKernelName :> next) ELSE names
  IN [names |-> names2,
      next |-> IF inserted THEN next + 1 ELSE next,
      ret |-> names2[LongKernelName]]

\* A mutant of constructSYCLKernelShortName: only the last digit is written
constructSYCLKernelShortNameLastDigit(Id) ==
  SYCLKernelShortPrefix \o Digit[(Id % 10) + 1]

\* constructSYCLKernelShortName: the short prefix followed by the ID
constructSYCLKernelShortName(Id) ==
  SYCLKernelShortPrefix \o Decimal(Id)

\* registerSYCLKernelAndGetShortName
registerSYCLKernelAndGetShortName(names, next, LongKernelName) ==
  LET R == registerSYCLKernel(names, next, LongKernelName)
  IN [names |-> R.names, next |-> R.next, ret |-> R.ret,
      short |-> constructSYCLKernelShortName(R.ret)]

EmptyMap == [n \in {} |-> 0]

EmptyModule ==
  [functions |-> <<>>, globals |-> <<>>, aliases |-> <<>>, lastUnique |-> 0,
   nextIid |-> 0, aborted |-> ""]

NoCall == [op |-> "none", name |-> "", known |-> FALSE, id |-> 0, short |-> ""]

\* The names the registry is called with
RegistryNames == { NameKernelA, NameKernelB, NameHelper, NameShort0 }

\* History: firstReg gets the name and the returned ID the first time a name
\* is handed to the registry
Recorded(log, n, id) ==
  IF \E i \in 1..Len(log) : log[i].name = n THEN log
  ELSE Append(log, [name |-> n, id |-> id])

\* One call of registerSYCLKernel
RegisterSYCLKernel(n) ==
  /\ LET R == registerSYCLKernel(SimplerKernelNames, NextKernelID, n) IN
     /\ SimplerKernelNames' = R.names
     /\ NextKernelID' = R.next
     /\ lastCall' = [op |-> "register", name |-> n,
                     known |-> n \in DOMAIN SimplerKernelNames,
                     id |-> R.ret, short |-> ""]
     /\ firstReg' = Recorded(firstReg, n, R.ret)
  /\ UNCHANGED <<verdicts, M, passLog, hasKernelAncestorFunctionList>>

\* One call of registerSYCLKernelAndGetShortName
RegisterSYCLKernelAndGetShortName(n) ==
  /\ LET R == registerSYCLKernelAndGetShortName(SimplerKernelNames,
                                                NextKernelID, n) IN
     /\ SimplerKernelNames' = R.names
     /\ NextKernelID' = R.next
     /\ lastCall' = [op |-> "registerShort", name |-> n,
                     known |-> n \in DOMAIN SimplerKernelNames,
                     id |-> R.ret, short |-> R.short]
     /\ firstReg' = Recorded(firstReg, n, R.ret)
  /\ UNCHANGED <<verdicts, M, passLog, hasKernelAncestorFunctionList>>

\* One call of constructSYCLKernelShortName
ConstructSYCLKernelShortName(id) ==
  /\ lastCall' = [op |-> "short", name |-> "", known |-> FALSE, id |-> id,
                  short |-> constructSYCLKernelShortName(id)]
  /\ UNCHANGED <<SimplerKernelNames, NextKernelID, firstReg, verdicts, M,
                 passLog, hasKernelAncestorFunctionList>>

InitRegistry ==
  /\ SimplerKernelNames = EmptyMap
  /\ NextKernelID = 0
  /\ lastCall = NoCall
  /\ firstReg = <<>>
  /\ verdicts = {}
  /\ M = EmptyModule
  /\ passLog = <<>>
  /\ hasKernelAncestorFunctionList = <<>>

NextRegistry ==
  \/ \E n \in RegistryNames : RegisterSYCLKernel(n)
  \/ \E n \in RegistryNames : RegisterSYCLKernelAndGetShortName(n)
  \/ \E id \in 0..MaxId : ConstructSYCLKernelShortName(id)

SpecRegistry == InitRegistry /\ [][NextRegistry]_vars

----------------------------------------------------------------------------
(* The matcher applied to names *)

\* One call of sycl::isKernel on a function of the given name
IsKernelCall(n) ==
  /\ <<n, TRUE>> \notin verdicts
  /\ <<n, FALSE>> \notin verdicts
  /\ verdicts' = verdicts \cup { <<n, isKernel(n)>> }
  /\ UNCHANGED <<SimplerKernelNames, NextKernelID, lastCall, firstReg, M,
                 passLog, hasKernelAncestorFunctionList>>

NextMatcher == \E n \in MatcherNames : IsKernelCall(n)

SpecMatcher == InitRegistry /\ [][NextMatcher]_vars

----------------------------------------------------------------------------
(* The module and the kernel filter *)

\* functions of a module of SpecFilter
NumFuncs == 3
\* runs of passes in one behaviour
MaxRuns == 3

\* Function::isDeclaration: no basic block
isDeclaration(f) == f.body = <<>>

\* The names of all the global values of the module but function i
OtherNames(Mod, i) ==
  { Mod.functions[j].name : j \in (1..Len(Mod.functions)) \ {i} }
    \cup { Mod.globals[j].name : j \in 1..Len(Mod.globals) }
    \cup { Mod.aliases[j].name : j \in 1..Len(Mod.aliases) }

\* ValueSymbolTable::makeUniqueName: append the next value of the table's
\* counter until the name is free
RECURSIVE makeUniqueName(_, _, _)
makeUniqueName(base, taken, lastUnique) ==
  LET n == base \o Decimal(lastUnique + 1) IN
  IF n \in taken THEN makeUniqueName(base, taken, lastUnique + 1)
  ELSE [name |-> n, lastUnique |-> lastUnique + 1]

\* Value::setName on function i: nothing when the name is unchanged, and a
\* name already used by another global value is made unique
setName(Mod, i, newName) ==
  IF Mod.functions[i].name = newName THEN Mod
  ELSE IF newName \in OtherNames(Mod, i)
  THEN LET U == makeUniqueName(newName, OtherNames(Mod, i), Mod.lastUnique)
       IN [Mod EXCEPT !.functions[i].name = U.name,
                      !.lastUnique = U.lastUnique]
  ELSE [Mod EXCEPT !.functions[i].name = newName]

\* The state a pass works on: the module, the registry and the histories
PassState ==
  [M |-> M, names |-> SimplerKernelNames, next |-> NextKernelID,
   firstReg |-> firstReg, lastCall |-> lastCall, verdicts |-> verdicts]

\* A mutant of handleKernel: the short name is built from the counter after
\* the registration instead of the ID returned
handleKernelFromCounter(st, i) ==
  LET n == st.M.functions[i].name
      R == registerSYCLKernelAndGetShortName(st.names, st.next, n)
      M1 == [st.M EXCEPT !.functions[i].linkage = "External"]
  IN [st EXCEPT !.M = setName(M1, i, constructSYCLKernelShortName(R.next)),
                !.names = R.names,
                !.next = R.next,
                !.firstReg = Recorded(st.firstReg, n, R.ret),
                !.lastCall = [op |-> "registerShort", name |-> n,
                              known |-> n \in DOMAIN st.names,
                              id |-> R.ret, short |-> R.short]]

\* SYCLKernelFilter::handleKernel: external linkage, and the name replaced by
\* the short name the registry gives for the current name
handleKernel(st, i) ==
  LET n == st.M.functions[i].name
      R == registerSYCLKernelAndGetShortName(st.names, st.next, n)
      M1 == [st.M EXCEPT !.functions[i].linkage = "External"]
  IN [st EXCEPT !.M = setName(M1, i, R.short),
                !.names = R.names,
                !.next = R.next,
                !.firstReg = Recorded(st.firstReg, n, R.ret),
                !.lastCall = [op |-> "registerShort", name |-> n,
                              known |-> n \in DOMAIN st.names,
                              id |-> R.ret, short |-> R.short]]

\* SYCLKernelFilter::handleNonKernel: internal linkage
handleNonKernel(st, i) ==
  [st EXCEPT !.M.functions[i].linkage = "Internal"]

\* A mutant of the function loop body: declarations are handled too
filterFunctionNoDeclarationTest(st, i) ==
  LET f == st.M.functions[i]
      st1 == [st EXCEPT !.verdicts = @ \cup { <<f.name, isKernel(f.name)>> }]
  IN IF isKernel(f.name) THEN handleKernel(st1, i)
     ELSE handleNonKernel(st1, i)

\* The body of the loop on M.functions() of SYCLKernelFilter::runOnModule
filterFunction(st, i) ==
  LET f == st.M.functions[i] IN
  IF ~isDeclaration(f)
  THEN LET st1 == [st EXCEPT
                     !.verdicts = @ \cup { <<f.name, isKernel(f.name)>> }]
       IN IF isKernel(f.name) THEN handleKernel(st1, i)
          ELSE handleNonKernel(st1, i)
  ELSE st

\* The loop on M.functions(), from function i on
RECURSIVE filterFunctions(_, _)
filterFunctions(st, i) ==
  IF i > Len(st.M.functions) THEN st
  ELSE filterFunctions(filterFunction(st, i), i + 1)

\* The loop on M.globals(): definitions not named llvm.* become internal
filterGlobals(globals) ==
  [j \in 1..Len(globals) |->
     IF ~globals[j].decl /\ ~startswith(globals[j].name, "llvm.")
     THEN [globals[j] EXCEPT !.linkage = "Internal"]
     ELSE globals[j]]

\* The loop on M.aliases(): every alias becomes internal
filterAliases(aliases) ==
  [j \in 1..Len(aliases) |-> [aliases[j] EXCEPT !.linkage = "Internal"]]

\* optimizeGlobalCtorsList with a predicate that is always true: every
\* entry of llvm.global_ctors whose function has a body is removed; the list
\* keeps its name and its linkage
optimizeGlobalCtorsList(Mod) ==
  [Mod EXCEPT !.globals =
     [j \in 1..Len(Mod.globals) |->
        IF Mod.globals[j].name = "llvm.global_ctors"
        THEN [Mod.globals[j] EXCEPT !.init =
                SelectSeq(@, LAMBDA k : isDeclaration(Mod.functions[k]))]
        ELSE Mod.globals[j]]]

\* SYCLKernelFilter::runOnModule
SYCLKernelFilter_runOnModule(st) ==
  LET st1 == filterFunctions(st, 1)
      M2 == [st1.M EXCEPT !.globals = filterGlobals(@),
                          !.aliases = filterAliases(@)]
  IN [st1 EXCEPT !.M = optimizeGlobalCtorsList(M2)]

\* One run of the SYCL-kernel-filter pass
KernelFilterRun ==
  /\ Len(passLog) < MaxRuns
  /\ LET st == SYCLKernelFilter_runOnModule(PassState) IN
     /\ M' = st.M
     /\ SimplerKernelNames' = st.names
     /\ NextKernelID' = st.next
     /\ firstReg' = st.firstReg
     /\ lastCall' = st.lastCall
     /\ verdicts' = st.verdicts
  /\ passLog' = Append(passLog, "SYCLKernelFilter")
  /\ UNCHANGED hasKernelAncestorFunctionList

\* Names of the functions of SpecFilter; names with the short prefix are
\* given by the registry only
FilterNames == { NameKernelA, NameKernelB, NameHelper, NameMain }

DefinedLinkages == { "External", "LinkOnceODR", "Internal" }

\* first number of the instructions a pass makes
FirstNewIid == 100

RetBody == << [iid |-> 1, op |-> "ret", callee |-> 0, args |-> <<>>,
               res |-> [ty |-> [ptr |-> FALSE, base |-> "void"], id |-> ""]] >>

\* The functions a module may start with: a declaration is external, a
\* definition has a body and any linkage
FunctionChoices ==
  { [name |-> n, linkage |-> "External", body |-> <<>>, args |-> <<>>]
      : n \in FilterNames }
  \cup { [name |-> n, linkage |-> l, body |-> RetBody, args |-> <<>>]
           : n \in FilterNames, l \in DefinedLinkages }

\* The global variables a module may start with; the constructor list
\* names function 1 and function 2
GlobalChoices ==
  { << [name |-> "data", decl |-> FALSE, linkage |-> l, init |-> <<>>, str |-> ""],
       [name |-> "ext_data", decl |-> TRUE, linkage |-> "External",
        init |-> <<>>, str |-> ""],
       [name |-> "llvm.used", decl |-> FALSE, linkage |-> "Appending",
        init |-> <<>>, str |-> ""],
       [name |-> "llvm.global_ctors", decl |-> FALSE, linkage |-> "Appending",
        init |-> <<1, 2>>, str |-> ""] >> : l \in {"External", "Common"} }

AliasChoices ==
  { <<>>, << [name |-> "alias_data", linkage |-> "External"],
             [name |-> "alias_weak", linkage |-> "WeakAny"] >> }

InitFilter ==
  /\ SimplerKernelNames = EmptyMap
  /\ NextKernelID = 0
  /\ lastCall = NoCall
  /\ firstReg = <<>>
  /\ verdicts = {}
  /\ passLog = <<>>
  /\ hasKernelAncestorFunctionList = <<>>
  /\ \E fs \in [1..NumFuncs -> FunctionChoices] :
     \E gs \in GlobalChoices :
     \E as \in AliasChoices :
       /\ \A i, j \in 1..NumFuncs : i # j => fs[i].name # fs[j].name
       /\ M = [functions |-> fs, globals |-> gs, aliases |-> as,
               lastUnique |-> 0, nextIid |-> FirstNewIid, aborted |-> ""]

NextFilter == KernelFilterRun

SpecFilter == InitFilter /\ [][NextFilter]_vars

----------------------------------------------------------------------------
(* Instructions and values *)

\* Types: a first-class type or a pointer to one
Ty(b) == [ptr |-> FALSE, base |-> b]
PtrTo(b) == [ptr |-> TRUE, base |-> b]
Int8Ptr == PtrTo("i8")
Int64 == Ty("i64")

\* DataLayout::getTypeAllocSize of the first-class types of the model
BaseAllocSize(b) ==
  CASE b = "i8" -> 1
    [] b = "i32" -> 4
    [] b = "i64" -> 8
    [] b = "double" -> 8
    [] b = "task" -> 64
    [] OTHER -> 8

\* DataLayout::getTypeAllocSize: a pointer takes 8 bytes
getTypeAllocSize(t) == IF t.ptr THEN 8 ELSE BaseAllocSize(t.base)

NoValue == [ty |-> Ty("void"), id |-> ""]

\* Builder.getInt64
getInt64(n) == [ty |-> Int64, id |-> Decimal(n)]

\* The value an instruction defines
ResultOf(iid, t) == [ty |-> t, id |-> "%" \o Decimal(iid)]

Instr(iid, op, callee, args, res) ==
  [iid |-> iid, op |-> op, callee |-> callee, args |-> args, res |-> res]

\* Module::getValueSymbolTable().lookup: the function of that name, 0 for a
\* null pointer
lookup(Mod, name) ==
  IF \E i \in 1..Len(Mod.functions) : Mod.functions[i].name = name
  THEN CHOOSE i \in 1..Len(Mod.functions) : Mod.functions[i].name = name
  ELSE 0

\* The place of an instruction in a body, 0 when it is not there
PosOf(body, iid) ==
  IF \E p \in 1..Len(body) : body[p].iid = iid
  THEN CHOOSE p \in 1..Len(body) : body[p].iid = iid
  ELSE 0

\* IRBuilder insertion before the instruction iid
insertBefore(body, iid, new) ==
  LET p == PosOf(body, iid)
  IN SubSeq(body, 1, p - 1) \o new \o SubSeq(body, p, Len(body))

\* Instruction::eraseFromParent
eraseFromParent(body, iid) == SelectSeq(body, LAMBDA I : I.iid # iid)

\* IRBuilder::CreateGlobalStringPtr: a private global holding the string,
\* and the address of its first character
CreateGlobalString(Mod, str) ==
  [Mod EXCEPT !.globals =
     Append(@, [name |-> "", decl |-> FALSE, linkage |-> "Private",
                init |-> <<>>, str |-> str])]

GlobalStringPtr(str) == [ty |-> Int8Ptr, id |-> "@str:" \o str]

\* What is left of a run that dereferenced a null pointer
NullDereference == "SIGSEGV"

\* assert(...) on a pointer that is null: in a build with assertions the
\* pass stops there with the message; in a build without, the assert is
\* compiled out and the null pointer is dereferenced by the next statement
Abort(st, msg) ==
  [st EXCEPT !.M.aborted = IF st.M.asserts THEN msg ELSE NullDereference]

\* What a rewriting pass did is kept in the trace of the module, in the order
\* it was done: the task obtained, a call emitted, an instruction or a body
\* erased; f is the function worked on and at the marker call or the kernel
\* call concerned, 0 for a kernel body
Event(ev, f, at) == [ev |-> ev, f |-> f, at |-> at]

Events(ev, f, at, n) == [k \in 1..n |-> Event(ev, f, at)]

\* A reference kept to an instruction that was erased since is used: the
\* behaviour of the run is undefined from there on, the trace keeps the use
\* and the run is stopped
DanglingReference == "use after erase"

UseAfterErase(st, f, at) ==
  [st EXCEPT !.M.trace = Append(@, Event(DanglingReference, f, at)),
             !.M.aborted = DanglingReference]

----------------------------------------------------------------------------
(* Serialisation of the kernel arguments *)

SetKernelTaskMarkerFunctionName ==
  "_ZN2cl4sycl6detail22set_kernel_task_markerERNS1_4taskE"

SerializationFunctionName ==
  "_ZN2cl4sycl3drt13serialize_argERNS0_6detail4taskEmPvm"

SetKernelFunctionName ==
  "_ZN2cl4sycl3drt10set_kernelERNS0_6detail4taskEPKc"

KernelLaunchingFunctionName ==
  "_ZN2cl4sycl3drt13launch_kernelERNS0_6detail4taskEPKc"

\* A mutant of serializeArgument: a pointer is measured by its own type, as
\* the other values are, instead of by its pointee
serializeArgumentOwnSize(Task, SF, A, IndexNumber, iid) ==
  LET V == IF A.ty.ptr THEN A ELSE ResultOf(iid, PtrTo(A.ty.base))
      cast == V.ty # Int8Ptr
      first == IF A.ty.ptr THEN iid ELSE iid + 2
      Arg == IF cast THEN ResultOf(first, Int8Ptr) ELSE V
      n == IF cast THEN first + 1 ELSE first
  IN (IF A.ty.ptr THEN <<>>
      ELSE << Instr(iid, "alloca", 0, <<>>, V),
              Instr(iid + 1, "store", 0, <<A, V>>, NoValue) >>)
     \o (IF cast THEN << Instr(first, "bitcast", 0, <<V>>, Arg) >> ELSE <<>>)
     \o << Instr(n, "call", SF,
                 << Task, getInt64(IndexNumber), Arg,
                    getInt64(getTypeAllocSize(A.ty)) >>, NoValue) >>

\* The instructions serialising one argument A under the index IndexNumber;
\* iid is the first free instruction number.  A pointer is cast to i8* and
\* measured by its pointee; any other value is stored into a new alloca whose
\* address is cast to i8*, and measured by its own type.  A cast to the same
\* type makes no instruction.
serializeArgument(Task, SF, A, IndexNumber, iid) ==
  IF A.ty.ptr
  THEN LET cast == A.ty # Int8Ptr
           Arg == IF cast THEN ResultOf(iid, Int8Ptr) ELSE A
           n == IF cast THEN iid + 1 ELSE iid
       IN (IF cast THEN << Instr(iid, "bitcast", 0, <<A>>, Arg) >> ELSE <<>>)
          \o << Instr(n, "call", SF,
                      << Task, getInt64(IndexNumber), Arg,
                         getInt64(BaseAllocSize(A.ty.base)) >>, NoValue) >>
  ELSE LET Alloca == ResultOf(iid, PtrTo(A.ty.base))
           cast == Alloca.ty # Int8Ptr
           Arg == IF cast THEN ResultOf(iid + 2, Int8Ptr) ELSE Alloca
           n == IF cast THEN iid + 3 ELSE iid + 2
       IN << Instr(iid, "alloca", 0, <<>>, Alloca),
             Instr(iid + 1, "store", 0, <<A, Alloca>>, NoValue) >>
          \o (IF cast THEN << Instr(iid + 2, "bitcast", 0, <<Alloca>>, Arg) >>
              ELSE <<>>)
          \o << Instr(n, "call", SF,
                      << Task, getInt64(IndexNumber), Arg,
                         getInt64(getTypeAllocSize(A.ty)) >>, NoValue) >>

\* A mutant of serializeArguments: the index is incremented before it is
\* used, so args[k] is serialised under index k
RECURSIVE serializeArgumentsPreIncrement(_, _, _, _, _)
serializeArgumentsPreIncrement(Task, SF, args, k, iid) ==
  IF k > Len(args) THEN <<>>
  ELSE LET one == serializeArgument(Task, SF, args[k], k, iid)
       IN one \o serializeArgumentsPreIncrement(Task, SF, args, k + 1,
                                                iid + Len(one))

\* The loop on the arguments: args[k] is serialised under index k - 1
RECURSIVE serializeArguments(_, _, _, _, _)
serializeArguments(Task, SF, args, k, iid) ==
  IF k > Len(args) THEN <<>>
  ELSE LET one == serializeArgument(Task, SF, args[k], k - 1, iid)
       IN one \o serializeArguments(Task, SF, args, k + 1, iid + Len(one))

\* A mutant of serializeKernelArguments: the kernel call is not erased
serializeKernelArgumentsKeepCall(st, f, Task, KernelCall) ==
  LET Mod == st.M
      SF == lookup(Mod, SerializationFunctionName)
      body == Mod.functions[f].body
      p == PosOf(body, KernelCall)
  IN IF p = 0 THEN UseAfterErase(st, f, KernelCall)
     ELSE IF SF = 0 THEN Abort(st, "Serialization function not found")
     ELSE LET new == serializeArguments(Task, SF, body[p].args, 1, Mod.nextIid)
          IN [st EXCEPT
                !.M.functions[f].body = insertBefore(body, KernelCall, new),
                !.M.nextIid = @ + Len(new),
                !.M.trace = @ \o Events("serialize_arg", f, KernelCall,
                                        Len(body[p].args))]

\* SYCLSerializeArguments::serializeKernelArguments: the calls serialising
\* the operands of the kernel call are put before it and the call is erased
serializeKernelArguments(st, f, Task, KernelCall) ==
  LET Mod == st.M
      SF == lookup(Mod, SerializationFunctionName)
      body == Mod.functions[f].body
      p == PosOf(body, KernelCall)
  IN IF p = 0 THEN UseAfterErase(st, f, KernelCall)
     ELSE IF SF = 0 THEN Abort(st, "Serialization function not found")
     ELSE LET new == serializeArguments(Task, SF, body[p].args, 1, Mod.nextIid)
          IN [st EXCEPT
                !.M.functions[f].body =
                  eraseFromParent(insertBefore(body, KernelCall, new),
                                  KernelCall),
                !.M.nextIid = @ + Len(new),
                !.M.trace = @ \o Events("serialize_arg", f, KernelCall,
                                        Len(body[p].args))
                              \o << Event("erase kernel call", f,
                                          KernelCall) >>]

\* The loop on the kernel call sites collected in setKernelTask
RECURSIVE serializeKernelCalls(_, _, _, _, _)
serializeKernelCalls(st, f, Task, sites, k) ==
  IF k > Len(sites) \/ st.M.aborted # "" THEN st
  ELSE serializeKernelCalls(serializeKernelArguments(st, f, Task, sites[k]),
                            f, Task, sites, k + 1)

\* A mutant of isKernelCall: every direct call is taken for a kernel call
isKernelCallAny(Mod, I) ==
  /\ I.op = "call"
  /\ I.callee # 0

\* Is the instruction a direct call of a function that isKernel accepts
isKernelCall(Mod, I) ==
  /\ I.op = "call"
  /\ I.callee # 0
  /\ isKernel(Mod.functions[I.callee].name)

\* The kernel call sites of a body, in instruction order
KernelCallSites(Mod, body) ==
  LET calls == SelectSeq(body, LAMBDA I : isKernelCall(Mod, I))
  IN [k \in 1..Len(calls) |-> calls[k].iid]

\* The name of the callee of the last kernel call of the body, an empty
\* StringRef when there is none
LastKernelName(Mod, body) ==
  LET calls == SelectSeq(body, LAMBDA I : isKernelCall(Mod, I))
  IN IF calls = <<>> THEN ""
     ELSE Mod.functions[calls[Len(calls)].callee].name

\* A mutant of setKernelTask: the operands of the kernel calls are
\* serialised first, the set_kernel call is emitted and the marker call
\* erased after that
setKernelTaskSerializeFirst(st, f, MarkerCall) ==
  LET Mod == st.M
      body == Mod.functions[f].body
      sites == KernelCallSites(Mod, body)
      KernelName == LastKernelName(Mod, body)
      Task == body[PosOf(body, MarkerCall)].args[1]
      SKF == lookup(Mod, SetKernelFunctionName)
      got == Event("task", f, MarkerCall)
      st0 == serializeKernelCalls([st EXCEPT !.M.trace = Append(@, got)],
                                  f, Task, sites, 1)
  IN IF PosOf(body, MarkerCall) = 0 THEN UseAfterErase(st, f, MarkerCall)
     ELSE IF SKF = 0
     THEN Abort([st EXCEPT !.M.trace = Append(@, got)],
                "Kernel setting function not found")
     ELSE IF st0.M.aborted # "" THEN st0
     ELSE LET M1 == CreateGlobalString(st0.M, KernelName)
              call == Instr(M1.nextIid, "call", SKF,
                            << Task, GlobalStringPtr(KernelName) >>, NoValue)
              body1 == eraseFromParent(
                         insertBefore(M1.functions[f].body, MarkerCall,
                                      << call >>),
                         MarkerCall)
          IN [st0 EXCEPT
                !.M = [M1 EXCEPT
                         !.functions[f].body = body1,
                         !.nextIid = @ + 1,
                         !.trace = @ \o <<
                           Event("set_kernel", f, MarkerCall),
                           Event("erase marker", f, MarkerCall) >>]]

\* SYCLSerializeArguments::setKernelTask on the marker call MarkerCall of
\* function f
setKernelTask(st, f, MarkerCall) ==
  LET Mod == st.M
      body == Mod.functions[f].body
      sites == KernelCallSites(Mod, body)
      KernelName == LastKernelName(Mod, body)
      Task == body[PosOf(body, MarkerCall)].args[1]
      SKF == lookup(Mod, SetKernelFunctionName)
      got == Event("task", f, MarkerCall)
  IN IF PosOf(body, MarkerCall) = 0 THEN UseAfterErase(st, f, MarkerCall)
     ELSE IF SKF = 0
     THEN Abort([st EXCEPT !.M.trace = Append(@, got)],
                "Kernel setting function not found")
     ELSE LET M1 == CreateGlobalString(Mod, KernelName)
              call == Instr(M1.nextIid, "call", SKF,
                            << Task, GlobalStringPtr(KernelName) >>, NoValue)
              body1 == eraseFromParent(
                         insertBefore(body, MarkerCall, << call >>),
                         MarkerCall)
              st1 == [st EXCEPT
                        !.M = [M1 EXCEPT
                                 !.functions[f].body = body1,
                                 !.nextIid = @ + 1,
                                 !.trace = @ \o << got,
                                   Event("set_kernel", f, MarkerCall),
                                   Event("erase marker", f, MarkerCall) >>]]
          IN serializeKernelCalls(st1, f, Task, sites, 1)

\* The marker call sites of the module: <<function, instruction>> pairs in
\* function order and instruction order
RECURSIVE KernelMarkerCallSites(_, _)
KernelMarkerCallSites(Mod, f) ==
  IF f > Len(Mod.functions) THEN <<>>
  ELSE LET calls ==
             SelectSeq(Mod.functions[f].body,
                       LAMBDA I : /\ I.op = "call"
                                  /\ I.callee # 0
                                  /\ Mod.functions[I.callee].name
                                       = SetKernelTaskMarkerFunctionName)
       IN [k \in 1..Len(calls) |-> <<f, calls[k].iid>>]
          \o KernelMarkerCallSites(Mod, f + 1)

\* The loop on the marker call sites collected in runOnModule
RECURSIVE setKernelTasks(_, _, _)
setKernelTasks(st, sites, k) ==
  IF k > Len(sites) \/ st.M.aborted # "" THEN st
  ELSE setKernelTasks(setKernelTask(st, sites[k][1], sites[k][2]),
                      sites, k + 1)

\* SYCLSerializeArguments::runOnModule
SYCLSerializeArguments_runOnModule(st) ==
  setKernelTasks(st, KernelMarkerCallSites(st.M, 1), 1)

\* SYCLSerializeArgumentsInside::serializeKernelArguments: the body of the
\* kernel is dropped and replaced by the serialisation of its arguments but
\* the first, which is the task, then the launch call and a ret void.  A
\* failing assert leaves the function without instructions.
serializeKernelArgumentsInside(st, f) ==
  LET Mod == st.M
      F == Mod.functions[f]
      dropped == [st EXCEPT !.M.functions[f].body = <<>>,
                            !.M.trace = Append(@, Event("erase kernel body",
                                                        f, 0))]
      SF == lookup(Mod, SerializationFunctionName)
      KLF == lookup(Mod, KernelLaunchingFunctionName)
  IN IF SF = 0 THEN Abort(dropped, "Serialization function not found")
     ELSE IF F.args = <<>> THEN Abort(dropped, "no task argument")
     ELSE LET Task == F.args[1]
              new == serializeArguments(Task, SF, Tail(F.args), 1, Mod.nextIid)
              n == Mod.nextIid + Len(new)
              done == dropped.M.trace
                        \o << Event("task", f, 0) >>
                        \o Events("serialize_arg", f, 0, Len(Tail(F.args)))
          IN IF KLF = 0
             THEN Abort([st EXCEPT !.M.functions[f].body = new,
                                   !.M.nextIid = n,
                                   !.M.trace = done],
                        "Kernel launching function not found")
             ELSE LET M1 == CreateGlobalString(Mod, F.name)
                      launch == Instr(n, "call", KLF,
                                      << Task, GlobalStringPtr(F.name) >>,
                                      NoValue)
                      ret == Instr(n + 1, "ret", 0, <<>>, NoValue)
                  IN [st EXCEPT
                        !.M = [M1 EXCEPT
                                 !.functions[f].body = new \o << launch, ret >>,
                                 !.nextIid = n + 2,
                                 !.trace = Append(done,
                                   Event("launch_kernel", f, 0))]]

\* A mutant of the function test of the inside pass: every definition is
\* rewritten
isRewrittenInsideAnyDefinition(F) == ~isDeclaration(F)

\* The function test of SYCLSerializeArgumentsInside::runOnModule
isRewrittenInside(F) == ~isDeclaration(F) /\ isKernel(F.name)

\* The loop on M.functions() of SYCLSerializeArgumentsInside::runOnModule
RECURSIVE serializeInsideFunctions(_, _)
serializeInsideFunctions(st, f) ==
  IF f > Len(st.M.functions) \/ st.M.aborted # "" THEN st
  ELSE serializeInsideFunctions(
         IF isRewrittenInside(st.M.functions[f])
         THEN serializeKernelArgumentsInside(st, f)
         ELSE st,
         f + 1)

\* SYCLSerializeArgumentsInside::runOnModule
SYCLSerializeArgumentsInside_runOnModule(st) ==
  serializeInsideFunctions(st, 1)

\* A pass has run on the state st
PassDone(st, pass) ==
  /\ M' = st.M
  /\ SimplerKernelNames' = st.names
  /\ NextKernelID' = st.next
  /\ firstReg' = st.firstReg
  /\ lastCall' = st.lastCall
  /\ verdicts' = st.verdicts
  /\ passLog' = Append(passLog, pass)
  /\ UNCHANGED hasKernelAncestorFunctionList

\* One run of the SYCL-kernel-filter pass in the pipeline
PipelineKernelFilterRun ==
  /\ Len(passLog) < MaxRuns
  /\ M.aborted = ""
  /\ PassDone(SYCLKernelFilter_runOnModule(PassState), "SYCLKernelFilter")

\* One run of the SYCL-serialize-arguments pass
SerializeArgumentsRun ==
  /\ Len(passLog) < MaxRuns
  /\ M.aborted = ""
  /\ PassDone(SYCLSerializeArguments_runOnModule(PassState),
              "SYCLSerializeArguments")

\* One run of the SYCL-serialize-arguments-inside pass
SerializeArgumentsInsideRun ==
  /\ Len(passLog) < MaxRuns
  /\ M.aborted = ""
  /\ PassDone(SYCLSerializeArgumentsInside_runOnModule(PassState),
              "SYCLSerializeArgumentsInside")

----------------------------------------------------------------------------
(* The modules of the pipeline *)

\* call sites in the body of the host function
MaxSites == 3

TaskPtr == PtrTo("task")

\* The formal arguments a called function may have; the first is the task,
\* but for the list of two pointers
ArgLists ==
  { << [ty |-> TaskPtr, id |-> "%task"] >>,
    << [ty |-> PtrTo("i32"), id |-> "%a"],
       [ty |-> PtrTo("double"), id |-> "%b"] >>,
    << [ty |-> TaskPtr, id |-> "%task"], [ty |-> PtrTo("i32"), id |-> "%a"],
       [ty |-> PtrTo("double"), id |-> "%b"] >>,
    << [ty |-> TaskPtr, id |-> "%task"], [ty |-> Ty("double"), id |-> "%a"],
       [ty |-> Int8Ptr, id |-> "%b"], [ty |-> Ty("i32"), id |-> "%c"] >> }

\* The runtime functions that may be declared in the module, besides the
\* task marker
RuntimeNames ==
  << SerializationFunctionName, SetKernelFunctionName,
     KernelLaunchingFunctionName >>

\* The runtime functions a module declares: all of them, or all but one
PresentChoices ==
  LET all == { RuntimeNames[i] : i \in 1..Len(RuntimeNames) }
  IN { all } \cup { all \ { n } : n \in all }

Declaration(n) ==
  [name |-> n, linkage |-> "External", body |-> <<>>, args |-> <<>>]

OtherInstr(iid) == Instr(iid, "other", 0, <<>>, NoValue)

\* A function with a body of its own
Definition(n, l, args) ==
  [name |-> n, linkage |-> l,
   body |-> << OtherInstr(50), Instr(51, "ret", 0, <<>>, NoValue) >>,
   args |-> args]

\* The operands of a call of a function: values of the types of its formals
Operands(args, p) ==
  [k \in 1..Len(args) |->
     [ty |-> args[k].ty, id |-> "%v" \o Decimal(p) \o "." \o Decimal(k)]]

\* The body of the host function: at place p a call of the marker ("m"), of
\* the function "k" or of the helper "h", then a ret
HostBody(shape, marker, k, kargs, h, hargs) ==
  [p \in 1..Len(shape) |->
     CASE shape[p] = "m" ->
            Instr(p, "call", marker,
                  << [ty |-> TaskPtr, id |-> "%t" \o Decimal(p)] >>, NoValue)
       [] shape[p] = "k" ->
            Instr(p, "call", k, Operands(kargs, p), NoValue)
       [] OTHER ->
            Instr(p, "call", h, Operands(hargs, p), NoValue)]
  \o << Instr(Len(shape) + 1, "ret", 0, <<>>, NoValue) >>

HostShapes ==
  UNION { [1..n -> {"m", "k", "h"}] : n \in 0..MaxSites }

HelperArgs == << [ty |-> Ty("i32"), id |-> "%x"] >>

\* The module: the marker, the runtime functions present, the called
\* function, a helper and the host function; asserts tells whether the
\* passes were built with assertions
PipelineModule(present, kname, kargs, shape, asserts) ==
  LET runtime == SelectSeq(RuntimeNames, LAMBDA n : n \in present)
      decls == << Declaration(SetKernelTaskMarkerFunctionName) >>
                 \o [i \in 1..Len(runtime) |-> Declaration(runtime[i])]
      k == Len(decls) + 1
      h == k + 1
  IN [functions |->
        decls
        \o << Definition(kname, "LinkOnceODR", kargs),
              Definition(NameHelper, "External", HelperArgs),
              [name |-> NameMain, linkage |-> "External",
               body |-> HostBody(shape, 1, k, kargs, h, HelperArgs),
               args |-> <<>>] >>,
      globals |-> <<>>, aliases |-> <<>>, lastUnique |-> 0,
      nextIid |-> FirstNewIid, aborted |-> "", asserts |-> asserts,
      trace |-> <<>>]

InitPipeline ==
  /\ SimplerKernelNames = EmptyMap
  /\ NextKernelID = 0
  /\ lastCall = NoCall
  /\ firstReg = <<>>
  /\ verdicts = {}
  /\ passLog = <<>>
  /\ hasKernelAncestorFunctionList = <<>>
  /\ \E present \in PresentChoices :
     \E kname \in { NameKernelA, NameHelper2 } :
     \E kargs \in ArgLists :
     \E shape \in HostShapes :
     \E asserts \in BOOLEAN :
       M = PipelineModule(present, kname, kargs, shape, asserts)

NextPipeline ==
  \/ PipelineKernelFilterRun
  \/ SerializeArgumentsRun
  \/ SerializeArgumentsInsideRun

SpecPipeline == InitPipeline /\ [][NextPipeline]_vars

----------------------------------------------------------------------------
(* Functions that have a kernel as ancestor *)

Reverse(seq) == [k \in 1..Len(seq) |-> seq[Len(seq) + 1 - k]]

\* The address of function g as an operand
FuncAddr(g) == [ty |-> PtrTo("fn"), id |-> "@" \o Decimal(g)]

\* Does the instruction use function g, as callee or as operand
UsesFunction(I, g) ==
  \/ I.callee = g
  \/ \E k \in 1..Len(I.args) : I.args[k] = FuncAddr(g)

\* The users of function g among the instructions of functions f, f + 1, ...
\* in the order of the text: the function holding the user and whether the
\* user is a call instruction
RECURSIVE UsersFrom(_, _, _)
UsersFrom(Mod, g, f) ==
  IF f > Len(Mod.functions) THEN <<>>
  ELSE LET us == SelectSeq(Mod.functions[f].body,
                           LAMBDA I : UsesFunction(I, g))
       IN [k \in 1..Len(us) |->
             [parent |-> f, isCall |-> us[k].op = "call",
              isCallee |-> us[k].op = "call" /\ us[k].callee = g]]
          \o UsersFrom(Mod, g, f + 1)

\* F.uses(): a new use is put at the head of the use list, so the users come
\* latest first unless the module was read with its use-list order kept
uses(Mod, g) ==
  IF Mod.reverseUses THEN Reverse(UsersFrom(Mod, g, 1))
  ELSE UsersFrom(Mod, g, 1)

\* isInHasKernelAncestorFunctionList
isInHasKernelAncestorFunctionList(f, list) ==
  \E k \in 1..Len(list) : list[k] = f

\* A mutant of hasAncestorKernel: any user that is a call instruction of a
\* listed function counts, not the first one only
hasAncestorKernelAnyUser(Mod, g, list) ==
  \E k \in 1..Len(uses(Mod, g)) :
    /\ uses(Mod, g)[k].isCall
    /\ isInHasKernelAncestorFunctionList(uses(Mod, g)[k].parent, list)

\* A mutant of hasAncestorKernel: the first user decides, a user that is not
\* a call instruction ends the search instead of being passed over
hasAncestorKernelFirstUser(Mod, g, list) ==
  IF uses(Mod, g) = <<>> THEN FALSE
  ELSE /\ uses(Mod, g)[1].isCall
       /\ isInHasKernelAncestorFunctionList(uses(Mod, g)[1].parent, list)

\* hasAncestorKernel: the first user that is a call instruction decides, by
\* whether the function holding it is in the list; users that are not call
\* instructions are passed over
hasAncestorKernel(Mod, g, list) ==
  LET calls == SelectSeq(uses(Mod, g), LAMBDA u : u.isCall)
  IN IF calls = <<>> THEN FALSE
     ELSE isInHasKernelAncestorFunctionList(calls[1].parent, list)

\* GlobalValue::hasLocalLinkage
hasLocalLinkage(F) == F.linkage \in {"Internal", "Private"}

\* Function::hasAddressTaken: some user is not a call of the function
hasAddressTaken(Mod, g) ==
  \E k \in 1..Len(UsersFrom(Mod, g, 1)) : ~UsersFrom(Mod, g, 1)[k].isCallee

\* The nodes of the call graph: the functions, the external calling node 0
\* and the node standing for the calls that leave the module
ExternalCallingNode == 0
CallsExternalNode(Mod) == Len(Mod.functions) + 1

\* The called nodes of a node, in the order the edges were added: the
\* external calling node calls every function that is not local or whose
\* address is taken; a function calls the callee of each of its call sites,
\* in instruction order, an indirect call going to the calls-external node
Children(Mod, n) ==
  IF n = ExternalCallingNode
  THEN SelectSeq([i \in 1..Len(Mod.functions) |-> i],
                 LAMBDA i : ~hasLocalLinkage(Mod.functions[i])
                            \/ hasAddressTaken(Mod, i))
  ELSE IF n = CallsExternalNode(Mod) THEN <<>>
  ELSE IF isDeclaration(Mod.functions[n]) THEN << CallsExternalNode(Mod) >>
  ELSE LET calls == SelectSeq(Mod.functions[n].body,
                              LAMBDA I : I.op = "call")
       IN [k \in 1..Len(calls) |->
             IF calls[k].callee = 0 THEN CallsExternalNode(Mod)
             ELSE calls[k].callee]

\* The visit number of a node whose component has been given out: the
\* greatest number, above every visit number that is handed out
VisitedDone == 2147483647

MinOf(a, b) == IF a < b THEN a ELSE b

\* scc_iterator: a depth-first visit from node n.  st holds the visit
\* numbers, the node stack and the nodes given out so far; the result is the
\* new st and the least visit number reached from n.  A component is given
\* out when its first visited node is left, its nodes taken from the top of
\* the stack down.
RECURSIVE DFSVisitOne(_, _, _)
RECURSIVE DFSVisitChildren(_, _, _, _, _)
DFSVisitOne(Mod, n, st) ==
  LET v == st.visitNum + 1
      st1 == [st EXCEPT !.visitNum = v, !.num[n] = v, !.stack = Append(@, n)]
      r == DFSVisitChildren(Mod, Children(Mod, n), 1, st1, v)
  IN IF r.min = v
     THEN LET stack == r.st.stack
              p == CHOOSE q \in 1..Len(stack) : stack[q] = n
              scc == Reverse(SubSeq(stack, p, Len(stack)))
          IN [st |-> [r.st EXCEPT
                        !.stack = SubSeq(stack, 1, p - 1),
                        !.out = @ \o scc,
                        !.num = [x \in DOMAIN @ |->
                                   IF \E q \in 1..Len(scc) : scc[q] = x
                                   THEN VisitedDone ELSE @[x]]],
              min |-> r.min]
     ELSE r

DFSVisitChildren(Mod, kids, k, st, min) ==
  IF k > Len(kids) THEN [st |-> st, min |-> min]
  ELSE IF st.num[kids[k]] = 0
  THEN LET r == DFSVisitOne(Mod, kids[k], st)
       IN DFSVisitChildren(Mod, kids, k + 1, r.st, MinOf(min, r.min))
  ELSE DFSVisitChildren(Mod, kids, k + 1, st, MinOf(min, st.num[kids[k]]))

\* scc_begin(&CG) up to the end: the nodes in the order they are given out,
\* callees before callers
SCCOrder(Mod) ==
  DFSVisitOne(Mod, ExternalCallingNode,
              [num |-> [x \in 0..CallsExternalNode(Mod) |-> 0],
               stack |-> <<>>, out |-> <<>>, visitNum |-> 0]).st.out

\* The loop of computeAncestorNode on the nodes, from place k on: a node with
\* a function is pushed on the list when the function is a kernel or has an
\* ancestor in the list
RECURSIVE computeAncestorNodes(_, _, _, _)
computeAncestorNodes(Mod, order, k, list) ==
  IF k > Len(order) THEN list
  ELSE LET n == order[k]
           isFunction == n # ExternalCallingNode /\ n # CallsExternalNode(Mod)
       IN computeAncestorNodes(
            Mod, order, k + 1,
            IF isFunction /\ (isKernel(Mod.functions[n].name)
                              \/ hasAncestorKernel(Mod, n, list))
            THEN Append(list, n) ELSE list)

\* computeAncestorNode
computeAncestorNode(Mod, list) ==
  computeAncestorNodes(Mod, SCCOrder(Mod), 1, list)

\* A mutant of updateHasKernelAncestorFunctionList: the function is assigned
\* to the list instead of pushed on it
updateHasKernelAncestorFunctionListAssign(Mod, f, list) ==
  IF hasAncestorKernel(Mod, f, list) THEN << f >> ELSE list

\* updateHasKernelAncestorFunctionList on the node of function f
updateHasKernelAncestorFunctionList(Mod, f, list) ==
  IF hasAncestorKernel(Mod, f, list) THEN Append(list, f) ELSE list

\* Calls of computeAncestorNode and updateHasKernelAncestorFunctionList in
\* one behaviour
MaxReachRuns == 2

\* One call of computeAncestorNode
ComputeAncestorNodeRun ==
  /\ Len(passLog) < MaxReachRuns
  /\ hasKernelAncestorFunctionList'
       = computeAncestorNode(M, hasKernelAncestorFunctionList)
  /\ passLog' = Append(passLog, "computeAncestorNode")
  /\ lastCall' = [NoCall EXCEPT !.op = "computeAncestorNode"]
  /\ UNCHANGED <<SimplerKernelNames, NextKernelID, firstReg, verdicts, M>>

\* Calls of computeAncestorNode in a behaviour that makes no other call
MaxClosureRuns == 4

\* One call of computeAncestorNode in a behaviour that makes no other call
ComputeAncestorNodeAgain ==
  /\ Len(passLog) < MaxClosureRuns
  /\ hasKernelAncestorFunctionList'
       = computeAncestorNode(M, hasKernelAncestorFunctionList)
  /\ passLog' = Append(passLog, "computeAncestorNode")
  /\ lastCall' = [NoCall EXCEPT !.op = "computeAncestorNode"]
  /\ UNCHANGED <<SimplerKernelNames, NextKernelID, firstReg, verdicts, M>>

\* One call of updateHasKernelAncestorFunctionList
UpdateHasKernelAncestorFunctionListRun(f) ==
  /\ Len(passLog) < MaxReachRuns
  /\ hasKernelAncestorFunctionList'
       = updateHasKernelAncestorFunctionList(M, f,
                                             hasKernelAncestorFunctionList)
  /\ passLog' = Append(passLog, "updateHasKernelAncestorFunctionList")
  /\ lastCall' = [NoCall EXCEPT !.op = "updateHasKernelAncestorFunctionList",
                               !.id = f]
  /\ UNCHANGED <<SimplerKernelNames, NextKernelID, firstReg, verdicts, M>>

\* The functions of the call graph modules: a kernel, a helper, a host
\* function and a second helper that calls nothing
ReachNames == << NameKernelA, NameHelper, NameMain, NameHelper2 >>

\* What the body of a function may do before it returns: nothing, call a
\* function, hand the address of a function to a call of the last function,
\* hand the address of the helper to an indirect call, or store the address
\* of the helper
ReachBodies ==
  LET n == Len(ReachNames)
      h == 2
      ret(i) == Instr(i, "ret", 0, <<>>, NoValue)
  IN { << ret(1) >>,
       << Instr(1, "call", 0, << FuncAddr(h) >>, NoValue), ret(2) >>,
       << Instr(1, "store", 0, << FuncAddr(h) >>, NoValue), ret(2) >> }
     \cup { << Instr(1, "call", g, <<>>, NoValue), ret(2) >> : g \in 1..n }
     \cup { << Instr(1, "call", n, << FuncAddr(g) >>, NoValue), ret(2) >>
              : g \in 1..n }

\* The linkage of the functions of a module: as the kernel filter leaves it
\* (kernels External, the rest Internal), all External, or all Internal (a
\* module that was internalized)
ReachLinkages == {"partitioned", "external", "internal"}

ReachModule(bodies, linkages, reverseUses) ==
  [functions |->
     [i \in 1..Len(ReachNames) |->
        [name |-> ReachNames[i],
         linkage |-> CASE linkages = "partitioned" ->
                            IF isKernel(ReachNames[i]) THEN "External"
                            ELSE "Internal"
                       [] linkages = "external" -> "External"
                       [] linkages = "internal" -> "Internal",
         body |-> IF i \in DOMAIN bodies THEN bodies[i]
                  ELSE << Instr(1, "ret", 0, <<>>, NoValue) >>,
         args |-> <<>>]],
   globals |-> <<>>, aliases |-> <<>>, lastUnique |-> 0,
   nextIid |-> FirstNewIid, aborted |-> "", reverseUses |-> reverseUses]

InitReach ==
  /\ SimplerKernelNames = EmptyMap
  /\ NextKernelID = 0
  /\ lastCall = NoCall
  /\ firstReg = <<>>
  /\ verdicts = {}
  /\ passLog = <<>>
  /\ hasKernelAncestorFunctionList = <<>>
  /\ \E bodies \in [1..(Len(ReachNames) - 1) -> ReachBodies] :
     \E linkages \in ReachLinkages :
     \E reverseUses \in BOOLEAN :
       M = ReachModule(bodies, linkages, reverseUses)

NextReach ==
  \/ ComputeAncestorNodeRun
  \/ \E f \in 1..Len(M.functions) : UpdateHasKernelAncestorFunctionListRun(f)

SpecReach == InitReach /\ [][NextReach]_vars

NextClosure == ComputeAncestorNodeAgain

SpecClosure == InitReach /\ [][NextClosure]_vars

----------------------------------------------------------------------------
(* inSPIRation: kernels and functions made compatible with SPIR *)

\* operator<<(raw_ostream &, const Type &) on the types of the model: the
\* base type, and for a pointer its address space, when not 0, and a star
typeName(t) ==
  IF t.ptr
  THEN t.base
       \o (IF t.as # 0 THEN " addrspace(" \o Decimal(t.as) \o ")" ELSE "")
       \o "*"
  ELSE t.base

\* std::regex_replace with a pattern without special characters: every
\* match, from the left and without overlap, is replaced
RECURSIVE regex_replace(_, _, _)
regex_replace(s, pat, fmt) ==
  IF Len(s) < Len(pat) THEN s
  ELSE IF SubSeq(s, 1, Len(pat)) = pat
  THEN fmt \o regex_replace(SubSeq(s, Len(pat) + 1, Len(s)), pat, fmt)
  ELSE SubSeq(s, 1, 1) \o regex_replace(SubSeq(s, 2, Len(s)), pat, fmt)

\* std::regex_replace with the pattern addrspace\(.\) and an empty format:
\* the address space is only matched when written with one character
RECURSIVE regex_replace_addrspace(_)
regex_replace_addrspace(s) ==
  LET open == "addrspace("
      n == Len(open) + 2
  IN IF Len(s) < n THEN s
     ELSE IF SubSeq(s, 1, Len(open)) = open /\ SubSeq(s, n, n) = ")"
     THEN regex_replace_addrspace(SubSeq(s, n + 1, Len(s)))
     ELSE SubSeq(s, 1, 1) \o regex_replace_addrspace(SubSeq(s, 2, Len(s)))

\* The rewritings of buildSPIRType, in the order they are applied
Type_Transforms ==
  << <<"i8", "char">>, <<"i16", "short">>, <<"i32", "int">>,
     <<"i64", "long">>, <<"i1", "bool">> >>

RECURSIVE applyTransforms(_, _)
applyTransforms(s, k) ==
  IF k > Len(Type_Transforms) THEN regex_replace_addrspace(s)
  ELSE applyTransforms(
         regex_replace(s, Type_Transforms[k][1], Type_Transforms[k][2]),
         k + 1)

\* inSPIRation::buildSPIRType
buildSPIRType(A) == applyTransforms(typeName(A.ty), 1)

\* The type qualifier string of an argument, from buildTypeQualString
TypeQual(A) ==
  LET const == IF A.readonly THEN "const" ELSE ""
  IN IF ~A.noalias THEN const
     ELSE IF const = "" THEN "restrict"
     ELSE const \o " " \o "restrict"

\* A mutant of AddressSpaceQuals: only the pointer arguments get an entry
AddressSpaceQualsPointersOnly(args) ==
  LET ptrs == SelectSeq(args, LAMBDA A : A.ty.ptr)
  IN [k \in 1..Len(ptrs) |-> ptrs[k].ty.as]

\* The address space qualifiers of the arguments: the address space of a
\* pointer, 0 for any other argument
AddressSpaceQuals(args) ==
  [k \in 1..Len(args) |-> IF args[k].ty.ptr THEN args[k].ty.as ELSE 0]

\* Function::setMetadata
setMetadata(F, kind, node) == [F EXCEPT !.md = (kind :> node) @@ @]

\* inSPIRation::kernelSPIRify
kernelSPIRify(F, ReqdWorkGroupSizeOne) ==
  LET Types == [k \in 1..Len(F.args) |-> buildSPIRType(F.args[k])]
      TypeQuals == [k \in 1..Len(F.args) |-> TypeQual(F.args[k])]
      AccessQuals == [k \in 1..Len(F.args) |-> "read_write"]
      ReqdWorkGroupSize == [i \in 1..3 |-> 1]
      F1 == [F EXCEPT !.cc = "SPIR_KERNEL", !.personality = ""]
      F2 == setMetadata(F1, "kernel_arg_addr_space",
                        AddressSpaceQuals(F.args))
      F3 == setMetadata(F2, "kernel_arg_type", Types)
      F4 == setMetadata(F3, "kernel_arg_base_type", Types)
      F5 == setMetadata(F4, "kernel_arg_type_qual", TypeQuals)
      F6 == setMetadata(F5, "kernel_arg_access_qual", AccessQuals)
  IN IF ReqdWorkGroupSizeOne
     THEN setMetadata(F6, "reqd_work_group_size", ReqdWorkGroupSize)
     ELSE F6

\* inSPIRation::kernelCallFuncSPIRify
kernelCallFuncSPIRify(F) == [F EXCEPT !.cc = "SPIR_FUNC"]

\* The renaming of the basic blocks of a function
renameBlocks(F) ==
  [F EXCEPT !.blocks = [k \in 1..Len(@) |-> "label_" \o Decimal(k - 1)]]

\* Function::isIntrinsic
isIntrinsic(F) == startswith(F.name, "llvm.")

\* The loop of inSPIRation::runOnModule on the functions f, f + 1, ... with
\* the value funcCount of the counter of the new function names
RECURSIVE inSPIRationFunctions(_, _, _)
inSPIRationFunctions(Mod, f, funcCount) ==
  IF f > Len(Mod.functions) THEN Mod
  ELSE LET F == Mod.functions[f]
       IN IF isDeclaration(F) THEN inSPIRationFunctions(Mod, f + 1, funcCount)
          ELSE IF isKernel(F.name)
          THEN inSPIRationFunctions(
                 [Mod EXCEPT !.functions[f] =
                    renameBlocks(kernelSPIRify(F, Mod.ReqdWorkGroupSizeOne))],
                 f + 1, funcCount)
          ELSE IF ~isIntrinsic(F)
          THEN inSPIRationFunctions(
                 setName([Mod EXCEPT !.functions[f] =
                            renameBlocks(kernelCallFuncSPIRify(F))],
                         f, "sycl_func_" \o Decimal(funcCount)),
                 f + 1, funcCount + 1)
          ELSE inSPIRationFunctions(Mod, f + 1, funcCount)

\* setSPIRVersion, setOpenCLVersion and setSPIRTriple
setSPIRModule(Mod) ==
  [Mod EXCEPT
     !.namedMD["opencl.spir.version"] = Append(@, <<2, 0>>),
     !.namedMD["opencl.ocl.version"] = Append(@, <<1, 2>>),
     !.triple = "spir64"]

\* inSPIRation::runOnModule
inSPIRation_runOnModule(Mod) ==
  setSPIRModule(inSPIRationFunctions(Mod, 1, 0))

\* One run of the inSPIRation pass
InSPIRationRun ==
  /\ Len(passLog) < MaxRuns
  /\ M' = inSPIRation_runOnModule(M)
  /\ passLog' = Append(passLog, "inSPIRation")
  /\ UNCHANGED <<SimplerKernelNames, NextKernelID, lastCall, firstReg,
                 verdicts, hasKernelAncestorFunctionList>>

\* sycl::isCallSiteInKernel: the user of the use is a call instruction and
\* the function holding it is a kernel
isCallSiteInKernel(Mod, U) ==
  U.isCall /\ isKernel(Mod.functions[U.parent].name)

\* The loop on the uses k, k + 1, ... of function f in the function-name
\* passes: the function is renamed at every use that is a call site in a
\* kernel, and every renaming takes a value of the counter
RECURSIVE renameAtUses(_, _, _, _, _, _)
renameAtUses(Mod, f, us, k, count, prefix) ==
  IF k > Len(us) THEN [M |-> Mod, count |-> count]
  ELSE IF isCallSiteInKernel(Mod, us[k])
  THEN renameAtUses(setName(Mod, f, prefix \o Decimal(count)), f, us, k + 1,
                    count + 1, prefix)
  ELSE renameAtUses(Mod, f, us, k + 1, count, prefix)

\* The loop on the functions f, f + 1, ... of the function-name passes
RECURSIVE renameFunctions(_, _, _, _)
renameFunctions(Mod, f, count, prefix) ==
  IF f > Len(Mod.functions) THEN Mod
  ELSE IF isDeclaration(Mod.functions[f])
  THEN renameFunctions(Mod, f + 1, count, prefix)
  ELSE LET R == renameAtUses(Mod, f, uses(Mod, f), 1, count, prefix)
       IN renameFunctions(R.M, f + 1, R.count, prefix)

\* SYCLCleanUpFuncName::runOnModule
SYCLCleanUpFuncName_runOnModule(Mod) ==
  renameFunctions(Mod, 1, 0, "sycl_func_")

\* SYCLModifySPIRFuncName::runOnModule
SYCLModifySPIRFuncName_runOnModule(Mod) ==
  renameFunctions(Mod, 1, 0, "foo.")

\* One run of the SYCLCleanUpFuncName pass
CleanUpFuncNameRun ==
  /\ Len(passLog) < MaxRuns
  /\ M' = SYCLCleanUpFuncName_runOnModule(M)
  /\ passLog' = Append(passLog, "SYCLCleanUpFuncName")
  /\ UNCHANGED <<SimplerKernelNames, NextKernelID, lastCall, firstReg,
                 verdicts, hasKernelAncestorFunctionList>>

\* One run of the SYCLModifySPIRFuncName pass
ModifySPIRFuncNameRun ==
  /\ Len(passLog) < MaxRuns
  /\ M' = SYCLModifySPIRFuncName_runOnModule(M)
  /\ passLog' = Append(passLog, "SYCLModifySPIRFuncName")
  /\ UNCHANGED <<SimplerKernelNames, NextKernelID, lastCall, firstReg,
                 verdicts, hasKernelAncestorFunctionList>>

SPIRType(b) == [ptr |-> FALSE, base |-> b, as |-> 0]
SPIRPtr(b, as) == [ptr |-> TRUE, base |-> b, as |-> as]

SPIRArg(t, id, readonly, noalias) ==
  [ty |-> t, id |-> id, readonly |-> readonly, noalias |-> noalias]

\* The formal arguments a function of the module may have
SPIRArgLists ==
  { <<>>,
    << SPIRArg(SPIRPtr("i32", 1), "%a", TRUE, TRUE),
       SPIRArg(SPIRType("float"), "%b", FALSE, FALSE),
       SPIRArg(SPIRPtr("i16", 0), "%c", FALSE, TRUE) >>,
    << SPIRArg(SPIRType("i64"), "%a", FALSE, FALSE),
       SPIRArg(SPIRPtr("i8", 3), "%b", TRUE, FALSE),
       SPIRArg(SPIRType("i1"), "%c", FALSE, FALSE),
       SPIRArg(SPIRPtr("i128", 10), "%d", FALSE, FALSE) >> }

\* The bodies a function of the module may have: calls of the functions
\* named by their places in the module, then a return
SPIRBody(callees) ==
  [k \in 1..Len(callees) |-> Instr(k + 1, "call", callees[k], <<>>, NoValue)]
  \o RetBody

\* The calls the first function may make
SPIRKernelCallees == { <<>>, <<3>>, <<3, 3>>, <<2, 3>>, <<1>> }

\* The calls the second function may make
SPIRHelperCallees == { <<>>, <<3>>, <<1>> }

SPIRFunction(n, defined, args, personality, callees) ==
  [name |-> n, linkage |-> "External",
   body |-> IF defined THEN SPIRBody(callees) ELSE <<>>,
   blocks |-> IF defined THEN << "entry" >> ELSE <<>>,
   args |-> args, cc |-> "C", personality |-> personality, md |-> EmptyMap]

\* The names the second function of the module may have
SPIRHelperNames == { NameHelper, NameKernelB, "sycl_func_1" }

\* The module: a kernel or its declaration, a second function, a third
\* function and a declaration
SPIRModule(kname, kdefined, kargs, personality, hname, switch, kcallees,
           hcallees, reverseUses) ==
  [functions |->
     << SPIRFunction(kname, kdefined, kargs, personality, kcallees),
        SPIRFunction(hname, TRUE, kargs, personality, hcallees),
        SPIRFunction(NameHelper2, TRUE, <<>>, "", <<>>),
        SPIRFunction("llvm.memcpy.p0i8.p0i8.i64", FALSE, <<>>, "", <<>>) >>,
   globals |-> <<>>, aliases |-> <<>>, lastUnique |-> 0,
   nextIid |-> FirstNewIid, aborted |-> "", reverseUses |-> reverseUses,
   namedMD |-> [k \in {"opencl.spir.version", "opencl.ocl.version"} |-> <<>>],
   triple |-> "x86_64-unknown-linux-gnu",
   ReqdWorkGroupSizeOne |-> switch]

InitSPIR ==
  /\ SimplerKernelNames = EmptyMap
  /\ NextKernelID = 0
  /\ lastCall = NoCall
  /\ firstReg = <<>>
  /\ verdicts = {}
  /\ passLog = <<>>
  /\ hasKernelAncestorFunctionList = <<>>
  /\ \E kname \in { NameKernelA, NameShort0 } :
     \E kdefined \in BOOLEAN :
     \E kargs \in SPIRArgLists :
     \E personality \in { "", "__gxx_personality_v0" } :
     \E hname \in SPIRHelperNames :
     \E switch \in BOOLEAN :
     \E kcallees \in SPIRKernelCallees :
     \E hcallees \in SPIRHelperCallees :
     \E reverseUses \in BOOLEAN :
       M = SPIRModule(kname, kdefined, kargs, personality, hname, switch,
                      kcallees, hcallees, reverseUses)

NextSPIR ==
  \/ InSPIRationRun
  \/ CleanUpFuncNameRun
  \/ ModifySPIRFuncNameRun

SpecSPIR == InitSPIR /\ [][NextSPIR]_vars

----------------------------------------------------------------------------
(* Removal of the empty lists of global constructors and destructors *)

\* Module::getGlobalVariable: the place of the global variable of that name,
\* 0 for a null pointer
getGlobalVariable(Mod, GlobalVariableName) ==
  IF \E j \in 1..Len(Mod.globals) : Mod.globals[j].name = GlobalVariableName
  THEN CHOOSE j \in 1..Len(Mod.globals) :
         Mod.globals[j].name = GlobalVariableName
  ELSE 0

\* GlobalVariable::eraseFromParent
eraseGlobal(Mod, j) ==
  [Mod EXCEPT !.globals =
     SubSeq(@, 1, j - 1) \o SubSeq(@, j + 1, Len(@))]

\* removeEmptyGlobalArray: the variable is erased and the statistic S is
\* counted up when its value type is an array of 0 elements
removeEmptyGlobalArray(Mod, GlobalVariableName, S) ==
  LET GL == getGlobalVariable(Mod, GlobalVariableName)
  IN IF GL # 0 /\ Mod.globals[GL].ty.kind = "array"
                /\ Mod.globals[GL].ty.n = 0
     THEN [M |-> [eraseGlobal(Mod, GL) EXCEPT !.stats[S] = @ + 1],
           changed |-> TRUE]
     ELSE [M |-> Mod, changed |-> FALSE]

\* A mutant of RELGCD::runOnModule: a short-cut "boolean or", the second
\* list is left alone when the first one was removed
RELGCD_runOnModuleShortCut(Mod, ctorsFirst) ==
  LET first == IF ctorsFirst THEN "llvm.global_ctors" ELSE "llvm.global_dtors"
      second == IF ctorsFirst THEN "llvm.global_dtors" ELSE "llvm.global_ctors"
      StatOf(n) == IF n = "llvm.global_ctors"
                   THEN "RemovedEmptyGlobalConstructors"
                   ELSE "RemovedEmptyGlobalDestructors"
      R1 == removeEmptyGlobalArray(Mod, first, StatOf(first))
  IN IF R1.changed THEN R1
     ELSE removeEmptyGlobalArray(R1.M, second, StatOf(second))

\* RELGCD::runOnModule: both lists are handled, in the order the compiler
\* picked for the operands of |
RELGCD_runOnModule(Mod, ctorsFirst) ==
  LET first == IF ctorsFirst THEN "llvm.global_ctors" ELSE "llvm.global_dtors"
      second == IF ctorsFirst THEN "llvm.global_dtors" ELSE "llvm.global_ctors"
      StatOf(n) == IF n = "llvm.global_ctors"
                   THEN "RemovedEmptyGlobalConstructors"
                   ELSE "RemovedEmptyGlobalDestructors"
      R1 == removeEmptyGlobalArray(Mod, first, StatOf(first))
      R2 == removeEmptyGlobalArray(R1.M, second, StatOf(second))
  IN [M |-> R2.M, changed |-> R1.changed \/ R2.changed]

\* One run of the RELGCD pass; lastCall keeps what runOnModule returned
RELGCDRun ==
  /\ Len(passLog) < MaxRuns
  /\ \E ctorsFirst \in BOOLEAN :
       LET R == RELGCD_runOnModule(M, ctorsFirst)
       IN /\ M' = R.M
          /\ lastCall' = [op |-> "RELGCD", changed |-> R.changed]
  /\ passLog' = Append(passLog, "RELGCD")
  /\ UNCHANGED <<SimplerKernelNames, NextKernelID, firstReg, verdicts,
                 hasKernelAncestorFunctionList>>

\* The value types a global variable of the module may have
ArrayOf(n) == [kind |-> "array", n |-> n]
GlobalTypes == { ArrayOf(0), ArrayOf(1), ArrayOf(2), [kind |-> "struct", n |-> 0] }

GlobalVar(n, linkage, ty) ==
  [name |-> n, decl |-> FALSE, linkage |-> linkage, init |-> <<>>, str |-> "",
   ty |-> ty]

\* The global variables the module may start with: each list is missing or
\* has one of the types, and a variable of another name may stand before,
\* between or after them
RELGCDGlobals ==
  LET lists(n) == { <<>> } \cup { << GlobalVar(n, "Appending", t) >> :
                                   t \in GlobalTypes }
      others == { <<>> } \cup { << GlobalVar("data", "Internal", t) >> :
                                 t \in { ArrayOf(0), ArrayOf(2) } }
  IN { a \o b \o c : a \in lists("llvm.global_ctors"), b \in others,
                     c \in lists("llvm.global_dtors") }
     \cup { c \o a \o b : a \in lists("llvm.global_ctors"), b \in others,
                          c \in lists("llvm.global_dtors") }

InitRELGCD ==
  /\ SimplerKernelNames = EmptyMap
  /\ NextKernelID = 0
  /\ lastCall = NoCall
  /\ firstReg = <<>>
  /\ verdicts = {}
  /\ passLog = <<>>
  /\ hasKernelAncestorFunctionList = <<>>
  /\ \E gs \in RELGCDGlobals :
       M = [functions |-> <<>>, globals |-> gs, aliases |-> <<>>,
            lastUnique |-> 0, nextIid |-> FirstNewIid, aborted |-> "",
            stats |-> [RemovedEmptyGlobalConstructors |-> 0,
                       RemovedEmptyGlobalDestructors |-> 0]]

NextRELGCD == RELGCDRun

SpecRELGCD == InitRELGCD /\ [][NextRELGCD]_vars

----------------------------------------------------------------------------
(* Properties of the kernel registry and of the matcher *)

\* The ID returned when the name was first handed to the registry
FirstId(n) ==
  LET i == CHOOSE i \in 1..Len(firstReg) : firstReg[i].name = n
  IN firstReg[i].id

IsRegisterCall(c) == c.op \in {"register", "registerShort"}

\* C1: a call of registerSYCLKernel with a name that is already registered
\* returns the ID the name got at its first registration and changes neither
\* the name-to-ID map nor the next-ID counter
C1_ReRegisterIsNoOp ==
  [][ \A n \in RegistryNames :
        (IsRegisterCall(lastCall') /\ lastCall'.name = n
         /\ n \in DOMAIN SimplerKernelNames)
        => /\ SimplerKernelNames' = SimplerKernelNames
           /\ NextKernelID' = NextKernelID
           /\ lastCall'.id = FirstId(n) ]_vars

\* a name registered first (ID 0) is registered again after two others
C1_Witness ==
  /\ lastCall.op = "register"
  /\ lastCall.known
  /\ lastCall.id = 0
  /\ NextKernelID = 3

\* C2: the map is injective, the IDs in use are 0..k-1 for k distinct names
\* registered, the i-th distinct name registered has ID i, and the counter
\* is k
C2_DenseInjectiveIds ==
  LET k == Len(firstReg) IN
  /\ \A a, b \in DOMAIN SimplerKernelNames :
       a # b => SimplerKernelNames[a] # SimplerKernelNames[b]
  /\ DOMAIN SimplerKernelNames = { firstReg[i].name : i \in 1..k }
  /\ { SimplerKernelNames[a] : a \in DOMAIN SimplerKernelNames } = 0..(k - 1)
  /\ \A i \in 1..k : SimplerKernelNames[firstReg[i].name] = i - 1
  /\ NextKernelID = k

\* every name of the universe is registered, and the last call was a repeat
C2_Witness ==
  /\ Len(firstReg) = Cardinality(RegistryNames)
  /\ lastCall.known

\* C3: the short name of an ID is the short prefix followed by the decimal
\* ID, distinct IDs have distinct short names, the composed call returns the
\* short name of the ID the name is bound to, and registering again a name
\* that got ID 0, 1 or 2 gives the same ID and the same short name
C3_ShortNames ==
  /\ lastCall.op \in {"short", "registerShort"}
       => lastCall.short = "TRISYCL_kernel_" \o ToString(lastCall.id)
  /\ \A i, j \in 0..MaxId :
       i # j => constructSYCLKernelShortName(i) # constructSYCLKernelShortName(j)
  /\ lastCall.op = "registerShort"
       => /\ lastCall.id = SimplerKernelNames[lastCall.name]
          /\ lastCall.short
               = constructSYCLKernelShortName(SimplerKernelNames[lastCall.name])
  /\ (IsRegisterCall(lastCall) /\ lastCall.known)
       => lastCall.id = FirstId(lastCall.name)

\* the name that got ID 2 is registered again through the composed call
C3_Witness ==
  /\ lastCall.op = "registerShort"
  /\ lastCall.known
  /\ lastCall.id = 2
  /\ lastCall.short = "TRISYCL_kernel_2"
  /\ Len(firstReg) >= 3

\* what C4 says a kernel name is
HasPrefix(s, p) == Len(s) >= Len(p) /\ SubSeq(s, 1, Len(p)) = p

LooksLikeKernel(n) ==
  /\ n # ""
  /\ \/ HasPrefix(n, "TRISYCL_kernel_")
     \/ /\ itaniumDemangle(n).ok
        /\ HasPrefix(itaniumDemangle(n).str,
                     "void cl::sycl::detail::instantiate_kernel<")

\* C4: isKernel answers true exactly for a named function whose name starts
\* with the short prefix or whose demangled name starts with the marker
C4_IsKernelExactly ==
  \A v \in verdicts : v[2] = LooksLikeKernel(v[1])

\* the matcher has answered on a short name, a mangled kernel, a name that
\* holds the marker in the middle, an undemanglable name and no name
C4_Witness ==
  /\ <<NameShort0, TRUE>> \in verdicts
  /\ <<NameKernelA, TRUE>> \in verdicts
  /\ <<NameInfix, FALSE>> \in verdicts
  /\ <<NameMain, FALSE>> \in verdicts
  /\ <<NoName, FALSE>> \in verdicts

----------------------------------------------------------------------------
(* Properties of the kernel filter *)

FilterStep == passLog' = Append(passLog, "SYCLKernelFilter")

FuncIds == 1..Len(M.functions)

\* isKernel as it answered when the filter visited a function of this name
HeldWhenVisited(n) == <<n, TRUE>> \in verdicts'

\* C5: a run of the filter leaves every defined function external when
\* isKernel held at its visit and internal otherwise, every defined global
\* variable not named llvm.* internal and every alias internal; declarations
\* and llvm.* variables keep their linkage
C5_LinkagePartition ==
  [][ FilterStep =>
        /\ Len(M'.functions) = Len(M.functions)
        /\ \A i \in FuncIds :
             M'.functions[i].linkage =
               IF M.functions[i].body = <<>> THEN M.functions[i].linkage
               ELSE IF HeldWhenVisited(M.functions[i].name) THEN "External"
               ELSE "Internal"
        /\ \A i \in FuncIds :
             M.functions[i].body # <<>> =>
               \/ <<M.functions[i].name, TRUE>> \in verdicts'
               \/ <<M.functions[i].name, FALSE>> \in verdicts'
        /\ Len(M'.globals) = Len(M.globals)
        /\ \A j \in 1..Len(M.globals) :
             M'.globals[j].linkage =
               IF M.globals[j].decl \/ HasPrefix(M.globals[j].name, "llvm.")
               THEN M.globals[j].linkage
               ELSE "Internal"
        /\ Len(M'.aliases) = Len(M.aliases)
        /\ \A j \in 1..Len(M.aliases) : M'.aliases[j].linkage = "Internal"
    ]_vars

\* after a run: a defined kernel that was linkonce is external, a defined
\* non-kernel is internal, a declaration is still external, "data" and the
\* aliases are internal and the llvm.* lists still have appending linkage
C5_Witness ==
  /\ Len(passLog) = 1
  /\ \E i, j, k \in FuncIds :
       /\ M.functions[i].body # <<>> /\ M.functions[i].linkage = "External"
       /\ <<NameKernelA, TRUE>> \in verdicts
       /\ M.functions[j].body # <<>> /\ M.functions[j].linkage = "Internal"
       /\ M.functions[k].body = <<>> /\ M.functions[k].linkage = "External"
  /\ \A j \in 1..Len(M.globals) :
       M.globals[j].linkage =
         IF M.globals[j].name = "data" THEN "Internal"
         ELSE IF M.globals[j].name = "ext_data" THEN "External"
         ELSE "Appending"
  /\ Len(M.aliases) = 2
  /\ \A j \in 1..Len(M.aliases) : M.aliases[j].linkage = "Internal"

\* C6: a run of the filter on a module the filter has already run on changes
\* the linkage of no function, global variable or alias
C6_SecondRunKeepsLinkage ==
  [][ (FilterStep /\ Len(passLog) >= 1
       /\ passLog[Len(passLog)] = "SYCLKernelFilter") =>
        /\ \A i \in FuncIds :
             M'.functions[i].linkage = M.functions[i].linkage
        /\ \A j \in 1..Len(M.globals) :
             M'.globals[j].linkage = M.globals[j].linkage
        /\ \A j \in 1..Len(M.aliases) :
             M'.aliases[j].linkage = M.aliases[j].linkage
    ]_vars

\* after the second run, a kernel that the first run renamed is external and
\* a non-kernel is internal
C6_Witness ==
  /\ Len(passLog) = 2
  /\ <<"TRISYCL_kernel_0", TRUE>> \in verdicts
  /\ \E i, j \in FuncIds :
       /\ HasPrefix(M.functions[i].name, "TRISYCL_kernel_")
       /\ M.functions[i].linkage = "External"
       /\ M.functions[j].body # <<>>
       /\ M.functions[j].linkage = "Internal"

\* the defined functions the filter handles as kernels in the step
VisitedKernels ==
  { i \in FuncIds : M.functions[i].body # <<>>
                    /\ HeldWhenVisited(M.functions[i].name) }

\* C7: a run of the filter registers the name of every defined kernel and
\* renames the kernel to "TRISYCL_kernel_<id>", <id> being the registry ID of
\* the name it had; kernels of different names get different names and
\* isKernel holds for the new names
C7_KernelsGetShortNames ==
  [][ FilterStep =>
        /\ \A i \in VisitedKernels :
             /\ M.functions[i].name \in DOMAIN SimplerKernelNames'
             /\ M'.functions[i].name =
                  "TRISYCL_kernel_"
                    \o ToString(SimplerKernelNames'[M.functions[i].name])
             /\ LooksLikeKernel(M'.functions[i].name)
             /\ isKernel(M'.functions[i].name)
        /\ \A i, j \in VisitedKernels :
             i # j => M'.functions[i].name # M'.functions[j].name
    ]_vars

\* two kernels have been renamed by the first run
C7_Witness ==
  /\ Len(passLog) = 1
  /\ \E i, j \in FuncIds :
       /\ i < j
       /\ M.functions[i].name = "TRISYCL_kernel_0"
       /\ M.functions[j].name = "TRISYCL_kernel_1"
       /\ SimplerKernelNames[NameKernelA] \in {0, 1}
       /\ SimplerKernelNames[NameKernelB] \in {0, 1}

----------------------------------------------------------------------------
(* Properties of the pipeline *)

Ran(pass) == \E k \in 1..Len(passLog) : passLog[k] = pass

\* isKernel holds for no function of the module
NoKernels == \A i \in FuncIds : ~isKernel(M.functions[i].name)

\* Some instruction of the module calls the function of that name
CallsTo(name) ==
  \E f \in FuncIds : \E p \in 1..Len(M.functions[f].body) :
    LET I == M.functions[f].body[p] IN
    /\ I.op = "call"
    /\ I.callee # 0
    /\ M.functions[I.callee].name = name

NothingRegistered == SimplerKernelNames = EmptyMap /\ NextKernelID = 0

\* C8 as stated: in a module without kernels the passes leave every function
\* internal, register nothing and make no call of serialize_arg or of
\* launch_kernel
C8_NoKernelsAllInternal ==
  (NoKernels /\ Ran("SYCLKernelFilter")) =>
    /\ \A i \in FuncIds : M.functions[i].linkage = "Internal"
    /\ NothingRegistered
    /\ ~CallsTo(SerializationFunctionName)
    /\ ~CallsTo(KernelLaunchingFunctionName)

\* C8, amended: in a module without kernels the passes leave every defined
\* function internal once the filter has run, register nothing and make no
\* call of serialize_arg or of launch_kernel; declarations keep their linkage
C8_NoKernelsDefinedInternal ==
  NoKernels =>
    /\ Ran("SYCLKernelFilter") =>
         \A i \in FuncIds :
           M.functions[i].body # <<>> => M.functions[i].linkage = "Internal"
    /\ NothingRegistered
    /\ ~CallsTo(SerializationFunctionName)
    /\ ~CallsTo(KernelLaunchingFunctionName)

\* the three passes have run on a module without kernels whose host function
\* held marker calls and calls of the other functions
C8_Witness ==
  /\ NoKernels
  /\ Ran("SYCLKernelFilter")
  /\ Ran("SYCLSerializeArguments")
  /\ Ran("SYCLSerializeArgumentsInside")
  /\ M.aborted = ""
  /\ CallsTo(SetKernelFunctionName)
  /\ CallsTo(NameHelper2)
  /\ CallsTo(NameHelper)
  /\ \E i \in FuncIds : M.functions[i].linkage = "Internal"

----------------------------------------------------------------------------
(* Properties of the list of functions that have a kernel as ancestor *)

ReachFuncs == 1..Len(M.functions)

IsMember(f) ==
  isInHasKernelAncestorFunctionList(f, hasKernelAncestorFunctionList)

\* May function f call function g: by a call of g, or by an indirect call
\* that is handed the address of g
MayCall(f, g) ==
  \E k \in 1..Len(M.functions[f].body) :
    LET I == M.functions[f].body[k]
    IN /\ I.op = "call"
       /\ \/ I.callee = g
          \/ I.callee = 0 /\ \E a \in 1..Len(I.args) : I.args[a] = FuncAddr(g)

RECURSIVE CalledFrom(_)
CalledFrom(S) ==
  LET T == S \cup { g \in ReachFuncs : \E f \in S : MayCall(f, g) }
  IN IF T = S THEN S ELSE CalledFrom(T)

ReachKernels == { f \in ReachFuncs : isKernel(M.functions[f].name) }

\* The only user of h is one call of h, in the body of a kernel
OnlyCalledInKernel(h) ==
  /\ Len(UsersFrom(M, h, 1)) = 1
  /\ UsersFrom(M, h, 1)[1].isCallee
  /\ UsersFrom(M, h, 1)[1].parent \in ReachKernels

\* C9: after one run of computeAncestorNode from an empty list, a function
\* that is no kernel and whose only call site is in the body of a kernel is
\* in the list.
C9_HelperOfKernelIsMember ==
  passLog = << "computeAncestorNode" >>
    => \A h \in ReachFuncs :
         (h \notin ReachKernels /\ OnlyCalledInKernel(h)) => IsMember(h)

\* C10: after any runs of computeAncestorNode and of
\* updateHasKernelAncestorFunctionList on a module, every function in the
\* list is a kernel or is called, through any number of calls, from a kernel.
C10_MembersComeFromKernels ==
  \A f \in ReachFuncs : IsMember(f) => f \in CalledFrom(ReachKernels)

\* computeAncestorNode has run at least once
ComputeHasRun ==
  \E k \in 1..Len(passLog) : passLog[k] = "computeAncestorNode"

\* C11: once computeAncestorNode has run on a module, every function with a
\* call graph node that isKernel accepts is in the list, called or not.
C11_KernelsAreMembers ==
  ComputeHasRun => \A f \in ReachKernels : IsMember(f)

\* C12: membership is monotonic: a function in the list before a call of
\* computeAncestorNode or of updateHasKernelAncestorFunctionList is in the
\* list after it.
C12_MembershipIsMonotonic ==
  [][\A f \in ReachFuncs : IsMember(f) => IsMember(f)']_vars

\* Two calls were made, the list held the kernel after the first and the
\* second, an update, found the list as it was
C12_Witness ==
  /\ Len(passLog) >= 2
  /\ passLog[1] = "computeAncestorNode"
  /\ lastCall.op = "updateHasKernelAncestorFunctionList"
  /\ ~IsMember(lastCall.id)
  /\ \E f \in ReachKernels : IsMember(f)

\* The function holding the first user of f, in the order of the use list,
\* that is a call instruction; 0 when no call instruction uses f
FirstCallSiteParent(f) ==
  LET us == uses(M, f)
      idx == { k \in 1..Len(us) : us[k].isCall }
  IN IF idx = {} THEN 0
     ELSE us[CHOOSE k \in idx : \A j \in idx : k <= j].parent

\* The step is a call of updateHasKernelAncestorFunctionList
IsUpdateStep ==
  /\ passLog' # passLog
  /\ lastCall'.op = "updateHasKernelAncestorFunctionList"

\* C13: updateHasKernelAncestorFunctionList on the node of a function puts
\* the function at the end of the list exactly when the function holding its
\* first call site is in the list, and otherwise leaves the list as it is;
\* no other function is added and none is removed.
C13_UpdateAddsByFirstCallSite ==
  [][IsUpdateStep =>
       hasKernelAncestorFunctionList' =
         IF /\ FirstCallSiteParent(lastCall'.id) # 0
            /\ IsMember(FirstCallSiteParent(lastCall'.id))
         THEN Append(hasKernelAncestorFunctionList, lastCall'.id)
         ELSE hasKernelAncestorFunctionList]_vars

\* An update has added a function that no earlier call had put in the list
C13_Witness ==
  /\ lastCall.op = "updateHasKernelAncestorFunctionList"
  /\ Len(hasKernelAncestorFunctionList) >= 2
  /\ hasKernelAncestorFunctionList[Len(hasKernelAncestorFunctionList)]
       = lastCall.id
  /\ \A k \in 1..(Len(hasKernelAncestorFunctionList) - 1) :
       hasKernelAncestorFunctionList[k] # lastCall.id
  /\ IsMember(FirstCallSiteParent(lastCall.id))

----------------------------------------------------------------------------
(* Properties of the serialisation of the kernel arguments *)

\* The step is a run of the pass that ended without a failing assert
IsPassStep(pass) ==
  /\ passLog' = Append(passLog, pass)
  /\ M'.aborted = ""

\* The calls of the function named n in a body, in instruction order
CallsOf(Mod, body, n) ==
  SelectSeq(body, LAMBDA I : /\ I.op = "call"
                             /\ I.callee # 0
                             /\ Mod.functions[I.callee].name = n)

\* The value a serialize_arg call carries: its address operand, traced back
\* through the cast to i8* and through the alloca to the value stored in it
Carried(body, call) ==
  LET Arg == call.args[3]
      casts == SelectSeq(body, LAMBDA I : I.op = "bitcast" /\ I.res = Arg)
      src == IF casts = <<>> THEN Arg ELSE casts[1].args[1]
      allocas == SelectSeq(body, LAMBDA I : I.op = "alloca" /\ I.res = src)
      stores == SelectSeq(body, LAMBDA I : /\ I.op = "store"
                                           /\ I.args[2] = src)
  IN IF allocas = <<>> \/ stores = <<>> THEN src ELSE stores[1].args[1]

\* The serialize_arg calls of a body that carry one of the values args
SerializeCallsFor(Mod, body, args) ==
  SelectSeq(CallsOf(Mod, body, SerializationFunctionName),
            LAMBDA c : \E k \in 1..Len(args) : Carried(body, c) = args[k])

\* The calls are one per value, numbered from 0 in instruction order, the
\* call number i carrying the value number i
InArgumentOrder(body, calls, args) ==
  /\ Len(calls) = Len(args)
  /\ \A k \in 1..Len(args) :
       /\ calls[k].args[2] = getInt64(k - 1)
       /\ Carried(body, calls[k]) = args[k]

\* C14: a kernel call erased by SYCLSerializeArguments leaves one
\* serialize_arg call per operand, and a kernel rewritten by
\* SYCLSerializeArgumentsInside holds one serialize_arg call per formal
\* argument after the task; the calls have the indices 0, 1, ... in
\* instruction order and the call number i carries the argument number i,
\* pointer or not.
C14_SerializeInArgumentOrder ==
  [][/\ IsPassStep("SYCLSerializeArguments") =>
          \A f \in 1..Len(M.functions) :
            \A p \in 1..Len(M.functions[f].body) :
              LET I == M.functions[f].body[p]
                  after == M'.functions[f].body
              IN (isKernelCall(M, I) /\ PosOf(after, I.iid) = 0)
                   => InArgumentOrder(after,
                                      SerializeCallsFor(M', after, I.args),
                                      I.args)
     /\ IsPassStep("SYCLSerializeArgumentsInside") =>
          \A f \in 1..Len(M.functions) :
            isRewrittenInside(M.functions[f]) =>
              LET after == M'.functions[f].body
              IN InArgumentOrder(
                   after, CallsOf(M', after, SerializationFunctionName),
                   Tail(M.functions[f].args))]_vars

\* Some body holds a serialize_arg call of index 2 next to an alloca: three
\* arguments or more, not all pointers, were serialised
C14_Witness ==
  /\ M.aborted = ""
  /\ \E f \in 1..Len(M.functions) :
       /\ \E p \in 1..Len(M.functions[f].body) :
            M.functions[f].body[p].op = "alloca"
       /\ \E c \in 1..Len(CallsOf(M, M.functions[f].body,
                                  SerializationFunctionName)) :
            CallsOf(M, M.functions[f].body,
                    SerializationFunctionName)[c].args[2] = getInt64(2)

\* The calls of the function named n in the functions f, f + 1, ... of the
\* module, in the order of the text
RECURSIVE ProgramCallsFrom(_, _, _)
ProgramCallsFrom(Mod, n, f) ==
  IF f > Len(Mod.functions) THEN <<>>
  ELSE CallsOf(Mod, Mod.functions[f].body, n) \o ProgramCallsFrom(Mod, n, f + 1)

ProgramCallsOf(Mod, n) == ProgramCallsFrom(Mod, n, 1)

\* The kernel calls of the module
RECURSIVE ProgramKernelCallsFrom(_, _)
ProgramKernelCallsFrom(Mod, f) ==
  IF f > Len(Mod.functions) THEN <<>>
  ELSE SelectSeq(Mod.functions[f].body, LAMBDA I : isKernelCall(Mod, I))
       \o ProgramKernelCallsFrom(Mod, f + 1)

KernelsOf(Mod) ==
  { f \in 1..Len(Mod.functions) : isKernel(Mod.functions[f].name) }

\* The module has exactly one kernel, a definition with two arguments that
\* are both pointers
OneKernelOfTwoPointers(Mod) ==
  /\ Cardinality(KernelsOf(Mod)) = 1
  /\ \A f \in KernelsOf(Mod) :
       /\ ~isDeclaration(Mod.functions[f])
       /\ Len(Mod.functions[f].args) = 2
       /\ \A a \in 1..2 : Mod.functions[f].args[a].ty.ptr

\* The serialize_arg calls of the module are two, of indices 0 and 1
TwoSerializeCalls(Mod) ==
  LET calls == ProgramCallsOf(Mod, SerializationFunctionName)
  IN /\ Len(calls) = 2
     /\ calls[1].args[2] = getInt64(0)
     /\ calls[2].args[2] = getInt64(1)

\* The instructions a definition starts with
IsOriginalInstr(I) == I.iid < FirstNewIid

\* The kernel filter and a rewriter have run, without a failing assert
PipelineHasRun ==
  /\ M.aborted = ""
  /\ \E k \in 1..Len(passLog) : passLog[k] = "SYCLKernelFilter"
  /\ \E k \in 1..Len(passLog) :
       passLog[k] \in {"SYCLSerializeArguments",
                       "SYCLSerializeArgumentsInside"}

TasksOf(calls) == [k \in 1..Len(calls) |-> calls[k].args[1]]

\* The step is a run of SYCLSerializeArguments, however it ended
IsOutsideStep == passLog' = Append(passLog, "SYCLSerializeArguments")

\* C16: after SYCLSerializeArguments::runOnModule no call of the task marker
\* is left, one set_kernel call was made for each marker call, with the
\* operand 0 of the marker as task, and every direct call of a kernel is
\* erased and replaced by the serialize_arg calls of its operands.
C16_EverySiteIsRewritten ==
  [][IsPassStep("SYCLSerializeArguments") =>
       /\ ProgramCallsOf(M', SetKernelTaskMarkerFunctionName) = <<>>
       /\ TasksOf(ProgramCallsOf(M', SetKernelFunctionName))
            = TasksOf(ProgramCallsOf(M, SetKernelFunctionName))
              \o TasksOf(ProgramCallsOf(M, SetKernelTaskMarkerFunctionName))
       /\ ProgramKernelCallsFrom(M', 1) = <<>>
       /\ \A f \in 1..Len(M.functions) :
            \A p \in 1..Len(M.functions[f].body) :
              LET I == M.functions[f].body[p]
                  after == M'.functions[f].body
              IN isKernelCall(M, I) =>
                   Len(SerializeCallsFor(M', after, I.args)) = Len(I.args)]_vars

\* Function f of the module calls a kernel and does not call the task marker
CallsKernelWithoutMarker(Mod, f) ==
  /\ \E p \in 1..Len(Mod.functions[f].body) :
       isKernelCall(Mod, Mod.functions[f].body[p])
  /\ CallsOf(Mod, Mod.functions[f].body, SetKernelTaskMarkerFunctionName)
       = <<>>

\* C19: a run of SYCLSerializeArguments on a module in which a function
\* calls a kernel and holds no call of the task marker aborts; a run that
\* ends normally leaves no direct call of a kernel.
C19_KernelCallWithoutMarkerAborts ==
  [][IsOutsideStep =>
       /\ (\E f \in 1..Len(M.functions) : CallsKernelWithoutMarker(M, f))
            => M'.aborted # ""
       /\ M'.aborted = "" => ProgramKernelCallsFrom(M', 1) = <<>>]_vars

\* The name operand of the call is the name of a kernel of the module, not
\* empty, and a short name of the registry when the kernel filter ran first
NamesAKernel(Mod, c) ==
  \E g \in KernelsOf(Mod) :
    LET n == Mod.functions[g].name
    IN /\ n # NoName
       /\ c.args[2] = GlobalStringPtr(n)
       /\ (passLog # <<>> /\ passLog[1] = "SYCLKernelFilter") =>
            \E long \in DOMAIN SimplerKernelNames :
              n = constructSYCLKernelShortName(SimplerKernelNames[long])

\* C17: every set_kernel call made by SYCLSerializeArguments in a function
\* that calls a kernel, and every launch_kernel call made by
\* SYCLSerializeArgumentsInside, has as name operand the name the kernel has
\* then, which is not empty and is the registry short name when the kernel
\* filter ran first; also when the function holds several marker calls or
\* several kernel calls.
C17_CallsNameTheKernel ==
  [][/\ IsPassStep("SYCLSerializeArguments") =>
          \A f \in 1..Len(M.functions) :
            (\E p \in 1..Len(M.functions[f].body) :
               isKernelCall(M, M.functions[f].body[p]))
            => LET calls == CallsOf(M', M'.functions[f].body,
                                    SetKernelFunctionName)
               IN \A k \in 1..Len(calls) :
                    PosOf(M.functions[f].body, calls[k].iid) = 0
                      => NamesAKernel(M', calls[k])
     /\ IsPassStep("SYCLSerializeArgumentsInside") =>
          \A f \in 1..Len(M.functions) :
            isRewrittenInside(M.functions[f]) =>
              LET calls == CallsOf(M', M'.functions[f].body,
                                   KernelLaunchingFunctionName)
              IN /\ Len(calls) = 1
                 /\ NamesAKernel(M', calls[1])
                 /\ calls[1].args[2] = GlobalStringPtr(M'.functions[f].name)
    ]_vars

\* The messages of the asserts on the runtime functions
MissingFunctionMessages ==
  [n \in { RuntimeNames[i] : i \in 1..Len(RuntimeNames) } |->
     CASE n = SerializationFunctionName -> "Serialization function not found"
       [] n = SetKernelFunctionName -> "Kernel setting function not found"
       [] n = KernelLaunchingFunctionName ->
            "Kernel launching function not found"]

\* The runtime functions a run of the pass on the module needs and does not
\* find: set_kernel for a marker call, serialize_arg for a kernel call that
\* has operands in a function with a marker call, and for a kernel
\* definition serialize_arg and launch_kernel
MissingFor(Mod, pass) ==
  LET funcs == 1..Len(Mod.functions)
      marked == { f \in funcs :
                    CallsOf(Mod, Mod.functions[f].body,
                            SetKernelTaskMarkerFunctionName) # <<>> }
      needed ==
        IF pass = "SYCLSerializeArguments"
        THEN (IF marked # {} THEN {SetKernelFunctionName} ELSE {})
             \cup (IF \E f \in marked :
                        \E p \in 1..Len(Mod.functions[f].body) :
                          isKernelCall(Mod, Mod.functions[f].body[p])
                   THEN {SerializationFunctionName} ELSE {})
        ELSE IF \E f \in funcs : isRewrittenInside(Mod.functions[f])
        THEN {SerializationFunctionName, KernelLaunchingFunctionName}
        ELSE {}
  IN { n \in needed : lookup(Mod, n) = 0 }

\* C18: when a rewriter pass needs a runtime function that the module does
\* not hold, the pass aborts with the failure that names a missing function
\* and does not end normally.
C18_MissingFunctionAborts ==
  [][\A pass \in {"SYCLSerializeArguments", "SYCLSerializeArgumentsInside"} :
       (passLog' = Append(passLog, pass) /\ MissingFor(M, pass) # {})
         => \E n \in MissingFor(M, pass) :
              M'.aborted = MissingFunctionMessages[n]]_vars

----------------------------------------------------------------------------
(* Properties of inSPIRation *)

InSPIRationHasRun ==
  \E k \in 1..Len(passLog) : passLog[k] = "inSPIRation"

KernelArgKinds ==
  { "kernel_arg_addr_space", "kernel_arg_type", "kernel_arg_base_type",
    "kernel_arg_type_qual", "kernel_arg_access_qual" }

\* C20: after inSPIRation::runOnModule every defined kernel has the calling
\* convention SPIR_KERNEL and no personality function; each of its argument
\* metadata lists (address space, type, base type, type qualifier, access
\* qualifier) has one entry for each argument, in the order of the
\* arguments, the address space being 0 for an argument that is no pointer
\* and the access qualifier "read_write"; the reqd_work_group_size 1, 1, 1
\* is on the kernel exactly when the switch is on.
C20_KernelsAreSPIRKernels ==
  InSPIRationHasRun =>
    \A f \in 1..Len(M.functions) :
      LET F == M.functions[f]
      IN (~isDeclaration(F) /\ isKernel(F.name)) =>
           /\ F.cc = "SPIR_KERNEL"
           /\ F.personality = ""
           /\ \A kind \in KernelArgKinds :
                /\ kind \in DOMAIN F.md
                /\ Len(F.md[kind]) = Len(F.args)
           /\ \A k \in 1..Len(F.args) :
                /\ F.md["kernel_arg_addr_space"][k]
                     = (IF F.args[k].ty.ptr THEN F.args[k].ty.as ELSE 0)
                /\ F.md["kernel_arg_type"][k] = buildSPIRType(F.args[k])
                /\ F.md["kernel_arg_base_type"][k] = buildSPIRType(F.args[k])
                /\ F.md["kernel_arg_type_qual"][k] = TypeQual(F.args[k])
                /\ F.md["kernel_arg_access_qual"][k] = "read_write"
           /\ ("reqd_work_group_size" \in DOMAIN F.md)
                <=> M.ReqdWorkGroupSizeOne
           /\ M.ReqdWorkGroupSizeOne
                => F.md["reqd_work_group_size"] = <<1, 1, 1>>

\* inSPIRation has run, with the switch on, on a defined kernel that has
\* pointer arguments of another address space than 0 and arguments that are
\* no pointers
C20_Witness ==
  /\ InSPIRationHasRun
  /\ M.ReqdWorkGroupSizeOne
  /\ \E f \in 1..Len(M.functions) :
       LET F == M.functions[f]
       IN /\ ~isDeclaration(F) /\ isKernel(F.name)
          /\ F.cc = "SPIR_KERNEL"
          /\ Len(F.args) >= 3
          /\ \E k \in 1..Len(F.args) : F.args[k].ty.ptr /\ F.args[k].ty.as # 0
          /\ \E k \in 1..Len(F.args) : ~F.args[k].ty.ptr
          /\ "reqd_work_group_size" \in DOMAIN F.md


----------------------------------------------------------------------------
(* Properties of the function-name passes *)

SanitizerPrefix == "sycl_func_"

\* Is the name the prefix followed by a value the counter can take
IsCounterName(n, prefix) ==
  \E v \in 0..(2 * Len(M.functions)) : n = prefix \o Decimal(v)

\* The value of the counter in such a name
CounterValue(n, prefix) ==
  CHOOSE v \in 0..(2 * Len(M.functions)) : n = prefix \o Decimal(v)

\* Has the function a call site in a kernel
CalledInKernel(Mod, f) ==
  \E k \in 1..Len(uses(Mod, f)) : isCallSiteInKernel(Mod, uses(Mod, f)[k])

IsSanitizerStep ==
  IsPassStep("inSPIRation") \/ IsPassStep("SYCLCleanUpFuncName")

\* C21: a run of the name sanitizer (the renaming of inSPIRation, or
\* SYCLCleanUpFuncName) leaves every kernel its name, gives every defined
\* non-kernel function called in a kernel the name "sycl_func_" followed by
\* a value of the counter, gives a function no other new name, and the
\* values in the names of the functions grow in the order of the functions,
\* so that the names are pairwise distinct
C21_CounterNames ==
  [][IsSanitizerStep =>
       \A f \in 1..Len(M.functions) :
         LET old == M.functions[f].name
             new == M'.functions[f].name
         IN /\ isKernel(old) => new = old
            /\ new # old => IsCounterName(new, SanitizerPrefix)
            /\ ( /\ ~isDeclaration(M.functions[f])
                 /\ ~isKernel(old)
                 /\ CalledInKernel(M, f) )
               => IsCounterName(new, SanitizerPrefix)
            /\ \A g \in (f + 1)..Len(M.functions) :
                 ( /\ new # old
                   /\ M'.functions[g].name # M.functions[g].name
                   /\ IsCounterName(new, SanitizerPrefix)
                   /\ IsCounterName(M'.functions[g].name, SanitizerPrefix) )
                 => CounterValue(new, SanitizerPrefix)
                    < CounterValue(M'.functions[g].name, SanitizerPrefix)]_vars


----------------------------------------------------------------------------
(* Properties of the removal of the empty global lists *)

\* Is the module holding a global variable of that name that is an array
\* of 0 elements
IsEmptyList(Mod, n) ==
  \E j \in 1..Len(Mod.globals) :
    /\ Mod.globals[j].name = n
    /\ Mod.globals[j].ty = ArrayOf(0)

\* The global variables of the module left when the empty lists are taken out
WithoutEmptyLists(Mod) ==
  SelectSeq(Mod.globals,
            LAMBDA g : ~( /\ g.name \in {"llvm.global_ctors",
                                         "llvm.global_dtors"}
                          /\ g.ty = ArrayOf(0) ))

\* C22: a run of RELGCD erases the list of constructors and the list of
\* destructors, each exactly when it is there with zero elements, both in
\* the same run, and leaves every other global variable as it was; it
\* reports a change exactly when it erased a list; a run that follows a run
\* erases nothing and reports no change
C22_EmptyListsErased ==
  [][IsPassStep("RELGCD") =>
       /\ M'.globals = WithoutEmptyLists(M)
       /\ lastCall'.changed <=> ( \/ IsEmptyList(M, "llvm.global_ctors")
                                  \/ IsEmptyList(M, "llvm.global_dtors") )
       /\ (passLog # <<>>) => (M'.globals = M.globals /\ ~lastCall'.changed)
  ]_vars

\* Both lists were empty and the run erased both and reported a change
C22_Witness ==
  /\ passLog = << "RELGCD" >>
  /\ lastCall = [op |-> "RELGCD", changed |-> TRUE]
  /\ M.stats = [RemovedEmptyGlobalConstructors |-> 1,
                RemovedEmptyGlobalDestructors |-> 1]
  /\ \A j \in 1..Len(M.globals) : M.globals[j].name = "data"


----------------------------------------------------------------------------
(* Properties of the test of one function against the list *)

\* How many times the function is in the list
TimesIn(f, list) == Cardinality({ k \in 1..Len(list) : list[k] = f })

\* The step pushed the function on the list
Added(f) ==
  TimesIn(f, hasKernelAncestorFunctionList')
    > TimesIn(f, hasKernelAncestorFunctionList)

\* The step tested the function: it is the function of the updated node, or
\* one of the nodes computeAncestorNode went through
Tested(f) ==
  \/ lastCall'.op = "updateHasKernelAncestorFunctionList" /\ lastCall'.id = f
  \/ /\ lastCall'.op = "computeAncestorNode"
     /\ \E k \in 1..Len(SCCOrder(M)) : SCCOrder(M)[k] = f

\* C23: a function that is not a kernel is judged by its first call site
\* alone, the users that are not call instructions being passed over: a
\* step of computeAncestorNode or updateHasKernelAncestorFunctionList pushes
\* it only when the function holding that call site is in the list (before
\* the step, or pushed by the step ahead of it), pushes it whenever that
\* function was in the list before the step, and never on account of
\* another caller.
C23_FirstCallSiteDecides ==
  [][passLog' # passLog =>
       \A f \in ReachFuncs \ ReachKernels :
         LET p == FirstCallSiteParent(f)
         IN /\ Added(f) =>
                 /\ p # 0
                 /\ isInHasKernelAncestorFunctionList(
                      p, hasKernelAncestorFunctionList')
                 /\ p = f => IsMember(f)
            /\ (p # 0 /\ IsMember(p) /\ Tested(f)) => Added(f)]_vars

\* An update has left aside a function that a member calls, because the
\* function holding its first call site is no member
C23_Witness ==
  /\ lastCall.op = "updateHasKernelAncestorFunctionList"
  /\ lastCall.id \notin ReachKernels
  /\ ~IsMember(lastCall.id)
  /\ FirstCallSiteParent(lastCall.id) # 0
  /\ ~IsMember(FirstCallSiteParent(lastCall.id))
  /\ \E k \in 1..Len(uses(M, lastCall.id)) :
       /\ uses(M, lastCall.id)[k].isCallee
       /\ IsMember(uses(M, lastCall.id)[k].parent)


----------------------------------------------------------------------------
(* Properties of the serialisation of one argument *)

\* The address operand of the call is the value V, or the result of a cast
\* of V to i8*
IsAddressOf(body, call, V) ==
  /\ call.args[3].ty = Int8Ptr
  /\ \/ call.args[3] = V
     \/ \E p \in 1..Len(body) :
          /\ body[p].op = "bitcast"
          /\ body[p].args = << V >>
          /\ body[p].res = call.args[3]

\* The new allocas of a body into which the value A is stored
SlotsOf(body, A) ==
  { p \in 1..Len(body) :
      /\ body[p].op = "alloca"
      /\ ~IsOriginalInstr(body[p])
      /\ \E q \in 1..Len(body) :
           body[q].op = "store" /\ body[q].args = << A, body[p].res >> }

\* The call serialises the argument A: a pointer goes as it is, with the
\* size of its pointee; another value goes by the address of the one new
\* alloca of its type into which it is stored, with the size of its type
SerializesArgument(body, call, A) ==
  IF A.ty.ptr
  THEN /\ IsAddressOf(body, call, A)
       /\ call.args[4] = getInt64(BaseAllocSize(A.ty.base))
       /\ SlotsOf(body, A) = {}
  ELSE /\ Cardinality(SlotsOf(body, A)) = 1
       /\ \A p \in SlotsOf(body, A) :
            /\ body[p].res.ty = PtrTo(A.ty.base)
            /\ IsAddressOf(body, call, body[p].res)
       /\ call.args[4] = getInt64(getTypeAllocSize(A.ty))

\* The calls are one per argument, each serialising its argument, all with
\* the task Task
OneCallPerArgument(body, calls, args, Task) ==
  /\ Len(calls) = Len(args)
  /\ \A k \in 1..Len(args) :
       /\ SerializesArgument(body, calls[k], args[k])
       /\ calls[k].args[1] = Task

\* C24: every operand of a kernel call erased by SYCLSerializeArguments and
\* every formal argument after the task of a kernel rewritten by
\* SYCLSerializeArgumentsInside gets exactly one serialize_arg call; a
\* pointer is handed over cast to i8* with the allocation size of its
\* pointee, any other value is stored into a new alloca of its own type
\* whose address is handed over with the allocation size of that type; all
\* the calls made for one kernel call or one kernel have the same task, the
\* operand of a marker call of the function or the first formal argument.
C24_PointerOrSlot ==
  [][/\ IsPassStep("SYCLSerializeArguments") =>
          \A f \in 1..Len(M.functions) :
            \A p \in 1..Len(M.functions[f].body) :
              LET I == M.functions[f].body[p]
                  after == M'.functions[f].body
                  markers == CallsOf(M, M.functions[f].body,
                                     SetKernelTaskMarkerFunctionName)
              IN (isKernelCall(M, I) /\ PosOf(after, I.iid) = 0)
                   => \E m \in 1..Len(markers) :
                        OneCallPerArgument(
                          after, SerializeCallsFor(M', after, I.args),
                          I.args, markers[m].args[1])
     /\ IsPassStep("SYCLSerializeArgumentsInside") =>
          \A f \in 1..Len(M.functions) :
            isRewrittenInside(M.functions[f]) =>
              LET after == M'.functions[f].body
              IN OneCallPerArgument(
                   after, CallsOf(M', after, SerializationFunctionName),
                   Tail(M.functions[f].args),
                   Head(M.functions[f].args))]_vars

\* Some body serialises an i8* as it is with the size 1 of its pointee, and
\* a double through an alloca with its size 8
C24_Witness ==
  /\ M.aborted = ""
  /\ \E f \in 1..Len(M.functions) :
       LET body == M.functions[f].body
           calls == CallsOf(M, body, SerializationFunctionName)
       IN /\ \E c \in 1..Len(calls) :
               /\ calls[c].args[4] = getInt64(1)
               /\ \A p \in 1..Len(body) : body[p].res # calls[c].args[3]
          /\ \E c \in 1..Len(calls) :
               /\ calls[c].args[4] = getInt64(8)
               /\ \E p, q \in 1..Len(body) :
                    /\ body[p].op = "alloca"
                    /\ body[p].res.ty = PtrTo("double")
                    /\ body[q].op = "bitcast"
                    /\ body[q].args = << body[p].res >>
                    /\ body[q].res = calls[c].args[3]


----------------------------------------------------------------------------
(* Properties of the order of the rewriting *)

\* What the step added to the trace
NewEvents == SubSeq(M'.trace, Len(M.trace) + 1, Len(M'.trace))

NamingEvents == { "set_kernel", "launch_kernel" }

ErasingEvents == { "erase marker", "erase kernel call", "erase kernel body" }

IsRewritingStep ==
  \/ IsPassStep("SYCLSerializeArguments")
  \/ IsPassStep("SYCLSerializeArgumentsInside")

\* The places of the events of function f in a sequence of events
EventsOf(E, f) == { i \in 1..Len(E) : E[i].f = f }

\* C25 as stated: in the rewriting of a function with one kernel occurrence
\* (one marker call, or the kernel body) the task is obtained before any
\* serialize_arg call is emitted, every serialize_arg call is emitted before
\* the call naming the kernel (set_kernel or launch_kernel), and the kernel
\* call or body and the marker call are erased after all of that.
C25_PhasesInOrder ==
  [][IsRewritingStep =>
       LET E == NewEvents
       IN \A f \in 1..Len(M.functions) :
            Cardinality({ i \in EventsOf(E, f) : E[i].ev = "task" }) = 1 =>
              \A i, j \in EventsOf(E, f) :
                /\ (E[i].ev = "task" /\ E[j].ev = "serialize_arg") => i < j
                /\ (E[i].ev = "serialize_arg" /\ E[j].ev \in NamingEvents)
                     => i < j
                /\ (E[i].ev \notin ErasingEvents /\ E[j].ev \in ErasingEvents)
                     => i < j]_vars

\* The events of a marker call in SYCLSerializeArguments: the task, the
\* set_kernel call and the erasure of the marker call, one after the other
MarkerEventsAt(E, i) ==
  /\ i + 2 <= Len(E)
  /\ E[i + 1] = Event("set_kernel", E[i].f, E[i].at)
  /\ E[i + 2] = Event("erase marker", E[i].f, E[i].at)

\* The events of a kernel call in SYCLSerializeArguments end with its
\* erasure at place i: before it come the serialize_arg calls of the kernel
\* call, and before them the events of a marker call of the function
KernelCallEventsAt(E, i) ==
  \E m \in 1..(i - 1) :
    /\ E[m] = Event("erase marker", E[i].f, E[m].at)
    /\ \A j \in 1..Len(E) :
         E[j] = Event("serialize_arg", E[i].f, E[i].at) => m < j /\ j < i

\* C25 as the code does it: the task is obtained before any serialize_arg
\* call is emitted.  SYCLSerializeArguments emits the set_kernel call and
\* erases the marker call right after it has the task, before the
\* serialize_arg calls, and erases each kernel call after the serialize_arg
\* calls of its operands.  SYCLSerializeArgumentsInside erases the body of
\* the kernel first, then takes the task, emits the serialize_arg calls and
\* emits the launch_kernel call last.
C25_PhasesAsCoded ==
  [][/\ IsRewritingStep =>
          \A j \in 1..Len(NewEvents) :
            NewEvents[j].ev = "serialize_arg" =>
              \E i \in 1..(j - 1) : /\ NewEvents[i].ev = "task"
                                    /\ NewEvents[i].f = NewEvents[j].f
     /\ IsPassStep("SYCLSerializeArguments") =>
          LET E == NewEvents
          IN \A i \in 1..Len(E) :
               /\ E[i].ev \in { "task", "set_kernel", "erase marker",
                                "serialize_arg", "erase kernel call" }
               /\ E[i].ev = "task" => MarkerEventsAt(E, i)
               /\ E[i].ev = "set_kernel" => i > 1 /\ E[i - 1].ev = "task"
               /\ E[i].ev = "erase marker"
                    => i > 1 /\ E[i - 1].ev = "set_kernel"
               /\ E[i].ev = "erase kernel call" => KernelCallEventsAt(E, i)
               /\ E[i].ev = "serialize_arg" =>
                    \E j \in (i + 1)..Len(E) :
                      E[j] = Event("erase kernel call", E[i].f, E[i].at)
     /\ IsPassStep("SYCLSerializeArgumentsInside") =>
          LET E == NewEvents
          IN \A f \in 1..Len(M.functions) :
               LET n == Cardinality(EventsOf(E, f))
                   G == SelectSeq(E, LAMBDA e : e.f = f)
               IN n > 0 =>
                    /\ n >= 3
                    /\ G[1].ev = "erase kernel body"
                    /\ G[2].ev = "task"
                    /\ G[n].ev = "launch_kernel"
                    /\ \A k \in 3..(n - 1) : G[k].ev = "serialize_arg"]_vars

\* A run of SYCLSerializeArguments has emitted a set_kernel call, then
\* serialize_arg calls, and has erased the kernel call after them
C25_Witness ==
  /\ M.aborted = ""
  /\ \E i, j, k \in 1..Len(M.trace) :
       /\ i < j /\ j < k
       /\ M.trace[i].ev = "set_kernel"
       /\ M.trace[j].ev = "serialize_arg"
       /\ M.trace[k] = Event("erase kernel call", M.trace[j].f, M.trace[j].at)
       /\ M.trace[i].f = M.trace[j].f


----------------------------------------------------------------------------
(* Properties of the collected call sites *)

\* The instructions the events of one kind are about, in the order of the
\* events: <<function, instruction>> pairs
SitesOf(E, ev) ==
  LET G == SelectSeq(E, LAMBDA e : e.ev = ev)
  IN [k \in 1..Len(G) |-> << G[k].f, G[k].at >>]

\* The kernel calls of the functions f, f + 1, ... that hold a marker call:
\* <<function, instruction>> pairs in the order of the text
RECURSIVE MarkedKernelCallsFrom(_, _)
MarkedKernelCallsFrom(Mod, f) ==
  IF f > Len(Mod.functions) THEN <<>>
  ELSE LET body == Mod.functions[f].body
           sites == KernelCallSites(Mod, body)
       IN (IF CallsOf(Mod, body, SetKernelTaskMarkerFunctionName) = <<>>
           THEN <<>>
           ELSE [k \in 1..Len(sites) |-> << f, sites[k] >>])
          \o MarkedKernelCallsFrom(Mod, f + 1)

\* C26: a run of SYCLSerializeArguments works on the marker calls that were
\* in the module when it began, each once and in the order of the text, and
\* on the kernel calls that were in a function when the function was first
\* worked on, each once; it never uses an instruction it has erased and
\* never erases one twice, however many marker calls a function holds.
C26_NoUseAfterErase ==
  [][IsOutsideStep =>
       LET E == NewEvents
       IN /\ M'.aborted # DanglingReference
          /\ \A i \in 1..Len(E) : E[i].ev # DanglingReference
          /\ \A i, j \in 1..Len(E) :
               ( /\ i < j
                 /\ E[i].ev \in { "erase marker", "erase kernel call" } )
               => (E[j].f # E[i].f \/ E[j].at # E[i].at)
          /\ M'.aborted = "" =>
               /\ SitesOf(E, "task") = KernelMarkerCallSites(M, 1)
               /\ SitesOf(E, "erase marker") = KernelMarkerCallSites(M, 1)
               /\ SitesOf(E, "erase kernel call")
                    = MarkedKernelCallsFrom(M, 1)]_vars

\* A run has worked on a function that held two marker calls and a kernel
\* call, and has erased all three
C26_Witness ==
  /\ M.aborted = ""
  /\ \E i, j, k \in 1..Len(M.trace) :
       /\ i < j
       /\ M.trace[i].ev = "erase marker"
       /\ M.trace[j].ev = "erase marker"
       /\ M.trace[k].ev = "erase kernel call"
       /\ M.trace[i].f = M.trace[j].f
       /\ M.trace[i].f = M.trace[k].f


----------------------------------------------------------------------------
(* Properties of a second run of the filter *)

\* C27: a run of the filter on a module the filter has already run on adds
\* no name to the registry and leaves every kernel the name it has.
C27_SecondRunKeepsNames ==
  [][(FilterStep /\ passLog # <<>>) =>
       /\ SimplerKernelNames' = SimplerKernelNames
       /\ NextKernelID' = NextKernelID
       /\ \A i \in FuncIds :
            isKernel(M.functions[i].name)
              => M'.functions[i].name = M.functions[i].name]_vars


----------------------------------------------------------------------------
(* Properties of the list as a set *)

\* C29: no function is in hasKernelAncestorFunctionList more than once.
C29_ListHasNoDuplicates ==
  \A i, j \in 1..Len(hasKernelAncestorFunctionList) :
    i # j => hasKernelAncestorFunctionList[i]
               # hasKernelAncestorFunctionList[j]


----------------------------------------------------------------------------
(* Properties of repeated calls of computeAncestorNode *)

\* The functions in a list
MembersOf(list) == { list[k] : k \in 1..Len(list) }

Max(S) == CHOOSE x \in S : \A y \in S : y <= x

\* The length of the longest chain of calls that starts at f and comes to no
\* function twice, seen being the functions it came to so far
RECURSIVE LongestChainFrom(_, _)
LongestChainFrom(f, seen) ==
  Max({ 0 } \cup { 1 + LongestChainFrom(g, seen \cup { g }) :
                     g \in { h \in ReachFuncs \ seen : MayCall(f, h) } })

\* The length of the longest chain of calls below a kernel
LongestChain ==
  Max({ 0 } \cup { LongestChainFrom(k, { k }) : k \in ReachKernels })

\* No function has more than one user, and the user is a call of it
SingleCallSites ==
  \A f \in ReachFuncs :
    /\ Len(UsersFrom(M, f, 1)) <= 1
    /\ \A k \in 1..Len(UsersFrom(M, f, 1)) : UsersFrom(M, f, 1)[k].isCallee

\* C28: when computeAncestorNode is called again and again on one module,
\* the calls after the first LongestChain + 1 ones add no new function to
\* the list; and in a module where no function has more than one call site,
\* a call that adds no new function finds in the list exactly the kernels
\* and the functions called from them, directly or not.
C28_ClosureIsReached ==
  [][passLog' = Append(passLog, "computeAncestorNode") =>
       /\ Len(passLog) >= LongestChain + 1 =>
            MembersOf(hasKernelAncestorFunctionList')
              = MembersOf(hasKernelAncestorFunctionList)
       /\ ( /\ SingleCallSites
            /\ MembersOf(hasKernelAncestorFunctionList')
                 = MembersOf(hasKernelAncestorFunctionList) )
          => MembersOf(hasKernelAncestorFunctionList)
               = CalledFrom(ReachKernels)]_vars


----------------------------------------------------------------------------
(* Properties of the renaming of the functions called in kernels *)

\* The defined functions of the module with a call site in a kernel, in the
\* order of the module
RECURSIVE CalledInKernelFrom(_, _)
CalledInKernelFrom(Mod, f) ==
  IF f > Len(Mod.functions) THEN <<>>
  ELSE (IF ~isDeclaration(Mod.functions[f]) /\ CalledInKernel(Mod, f)
        THEN << f >> ELSE <<>>)
       \o CalledInKernelFrom(Mod, f + 1)

\* The step renamed the functions called in kernels, each once: the m of
\* them have the names of the prefix and 0, 1, ..., m - 1 in the order of
\* the module, and every other function has the name it had
RenamedOnceEach(prefix) ==
  LET called == CalledInKernelFrom(M, 1)
  IN /\ \A k \in 1..Len(called) :
          M'.functions[called[k]].name = prefix \o Decimal(k - 1)
     /\ \A f \in 1..Len(M.functions) :
          (\A k \in 1..Len(called) : called[k] # f)
            => M'.functions[f].name = M.functions[f].name

\* C30: a run of SYCLCleanUpFuncName, and likewise of
\* SYCLModifySPIRFuncName, renames every defined function with a call site
\* in a kernel exactly once and takes one value of the counter for it, so
\* that the m renamed functions are named by the prefix and 0, ..., m - 1
\* without gaps, and leaves the other functions their names.
C30_RenamedOnceEach ==
  [][/\ IsPassStep("SYCLCleanUpFuncName") => RenamedOnceEach("sycl_func_")
     /\ IsPassStep("SYCLModifySPIRFuncName") => RenamedOnceEach("foo.")]_vars

====
